---------------------------- MODULE Spec2Model ----------------------------
(***************************************************************************)
(* Model of the elemental install / upgrade / reset orchestrators, of the  *)
(* cleanup stack they share, of the partitioner's Disk and of the chroot   *)
(* executor.                                                               *)
(*                                                                         *)
(* One run of one orchestrator is a linear sequence of blocking external   *)
(* calls; pc is the position of the run, every external call may fail.     *)
(* The environment is the set of mounted mount points, attached loop       *)
(* devices, temporary directories and the image files of the state and     *)
(* recovery partitions.                                                    *)
(***************************************************************************)
EXTENDS Integers, Sequences, FiniteSets, TLC

VARIABLES
    op,        \* which orchestrator runs: install, upgrade, upgradeOld, reset, resetSpec, stack
    cfg,       \* the flags and host facts the run was started with
    pc,        \* position of the run
    err,       \* the run's err variable: a (flattened) list of error tokens, <<>> is nil
    stack,     \* CleanStack: the pushed callbacks, oldest first
    pushed,    \* every callback ever pushed, in push order
    log,       \* every callback invoked, in invocation order
    popped,    \* callbacks handed out by Pop, in order (nil for an empty stack)
    mnt,       \* mount points currently mounted
    loop,      \* loop devices currently attached
    imgLoop,   \* images whose loop_device field is set
    tmp,       \* temporary directories currently existing
    files,     \* content of the image files of the state / recovery partitions
    acq,       \* how often the run acquired each resource
    rel,       \* how often a release call was issued on each resource
    relFailed, \* a release call (umount, losetup -d, RemoveAll) itself failed
    partlog,   \* <<operation, partition>> for every partition mutation issued
    hooks,     \* hooks that returned success, in order
    deployed,  \* the new content has been deployed into the transition file
    device,    \* the block device: sector size, last sector, table label, partitions
    disk,      \* the Disk struct: sectorS, lastS, label, parts as last loaded
    cmds,      \* the external calls issued, in order (of a run: its hook stages)
    ret,       \* the value the last call returned besides its error
    find,      \* FindPartitionDevice: loop counter, lsblk calls and sleeps so far
    jail       \* the Chroot executor: bind mounts, process root, what the caller did

vars == <<op, cfg, pc, err, stack, pushed, log, popped, mnt, loop, imgLoop, tmp, files,
          acq, rel, relFailed, partlog, hooks, deployed, device, disk, cmds, ret, find, jail>>

-----------------------------------------------------------------------------
(* Bounds *)

\* number of callbacks the stack harness pushes at most
MaxPush == 3

-----------------------------------------------------------------------------
(* Errors.  An error value is a list of tokens (go-multierror flattens),   *)
(* the empty list is nil.                                                  *)

Nil == <<>>

Errorf(tok) == <<tok>>

\* multierror.Append(errs, e): nil e adds nothing, a list is flattened in
AppendErr(errs, e) == errs \o e

IsSubErr(e, errs) == \A i \in 1..Len(e) : \E j \in 1..Len(errs) : errs[j] = e[i]

SeqToSet(s) == { s[i] : i \in 1..Len(s) }

Count(x, s) == Cardinality({ i \in 1..Len(s) : s[i] = x })

-----------------------------------------------------------------------------
(* Resources *)

Partitions == {"oem", "recovery", "state", "persistent"}
Images     == {"activeImg", "recoveryImg", "passiveImg", "transitionImg"}
IsoMounts  == {"iso", "rootfs"}
TmpDirs    == {"isoTmp", "squashTmp", "upgradeTmp"}
LoopOf(img) ==
    CASE img = "activeImg"     -> "activeLoop"
      [] img = "recoveryImg"   -> "recoveryLoop"
      [] img = "passiveImg"    -> "passiveLoop"
      [] img = "transitionImg" -> "transitionLoop"
Resources  == Partitions \cup Images \cup IsoMounts \cup TmpDirs \cup { LoopOf(i) : i \in Images }

\* the state.yaml files at the State and the Recovery mount points
StateFiles == {"state/state.yaml", "recovery/state.yaml"}

FileNames == {"active", "passive", "recovery", "transition"} \cup StateFiles

\* the environment as one value, for the operators that transform it
Env == [mnt |-> mnt, loop |-> loop, imgLoop |-> imgLoop, tmp |-> tmp, files |-> files, acq |-> acq,
        rel |-> rel, relFailed |-> relFailed, partlog |-> partlog]

Held(e, r) == r \in e.mnt \/ r \in e.tmp \/ r \in e.loop

Acquire(e, r) == [e EXCEPT !.acq[r] = @ + 1]

Release(e, r) == [e EXCEPT !.rel[r] = @ + 1]

ReleaseFailed(e) == [e EXCEPT !.relFailed = TRUE]

\* a partition operation is issued; an environment that keeps the order of
\* the calls has a field calls
LogPart(e, what, part) ==
    LET e1 == [e EXCEPT !.partlog = @ \cup {<<what, part>>}] IN
    IF "calls" \in DOMAIN e1 THEN [e1 EXCEPT !.calls = Append(@, <<what, part>>)] ELSE e1

\* the image file behind each image
FileOf(img) ==
    CASE img = "activeImg"     -> "active"
      [] img = "recoveryImg"   -> "recovery"
      [] img = "passiveImg"    -> "passive"
      [] img = "transitionImg" -> "transition"

\* the partition holding each image file
PartOfFile(f) == IF f \in {"recovery", "recovery/state.yaml"} THEN "recovery" ELSE "state"

-----------------------------------------------------------------------------
(* Mount / loop manager (pkg/elemental).  Every operator takes the         *)
(* environment and the outcome of the external calls it makes and returns  *)
(* the new environment and the error.                                      *)

\* MountPartition: ok = FALSE is a failing Mounter.Mount; remount re-mounts
\* an already mounted partition and acquires nothing
MountPartition(e, part, remount, ok) ==
    LET e1 == LogPart(e, "mount", part) IN
    IF ~ok THEN [env |-> e1, err |-> Errorf("mount")]
    ELSE IF remount THEN [env |-> e1, err |-> Nil]
    ELSE [env |-> Acquire([e1 EXCEPT !.mnt = @ \cup {part}], part), err |-> Nil]

\* UnmountPartition: does nothing when not mounted; fails lists the
\* resources whose release call fails
UnmountPartition(e, part, fails) ==
    IF part \notin e.mnt THEN [env |-> e, err |-> Nil]
    ELSE LET e1 == Release(LogPart(e, "unmount", part), part) IN
         IF part \in fails
         THEN [env |-> ReleaseFailed(e1), err |-> Errorf("unmount")]
         ELSE [env |-> [e1 EXCEPT !.mnt = @ \ {part}], err |-> Nil]

\* UnmountPartitions: tries every partition, reports one error if any failed
RECURSIVE UnmountEach(_, _, _, _)
UnmountEach(e, parts, fails, failure) ==
    IF parts = <<>> THEN [env |-> e, failure |-> failure]
    ELSE LET r == UnmountPartition(e, Head(parts), fails) IN
         UnmountEach(r.env, Tail(parts), fails, failure \/ r.err # Nil)

UnmountPartitions(e, parts, fails) ==
    LET r == UnmountEach(e, parts, fails, FALSE) IN
    [env |-> r.env, err |-> IF r.failure THEN Errorf("unmountPartitions") ELSE Nil]

\* MountPartitions: mounts in order; failAt is the index of the partition
\* whose mount fails (0: none).  On failure everything is unmounted again
\* and the mount error is returned.
RECURSIVE MountEach(_, _, _, _, _)
MountEach(e, parts, i, failAt, fails) ==
    IF i > Len(parts) THEN [env |-> e, err |-> Nil]
    ELSE LET r == MountPartition(e, parts[i], FALSE, i # failAt) IN
         IF r.err # Nil
         THEN [env |-> UnmountPartitions(r.env, parts, fails).env, err |-> r.err]
         ELSE MountEach(r.env, parts, i + 1, failAt, fails)

\* the variant that leaves what it mounted when a mount fails
MountPartitionsNoUnmount(e, parts, failAt, fails) ==
    IF failAt = 0 THEN MountEach(e, parts, 1, 0, fails)
    ELSE [env |-> LogPart(MountEach(e, SubSeq(parts, 1, failAt - 1), 1, 0, fails).env,
                          "mount", parts[failAt]),
          err |-> Errorf("mount")]

MountPartitions(e, parts, failAt, fails) == MountEach(e, parts, 1, failAt, fails)

Reverse(s) == [i \in 1..Len(s) |-> s[Len(s) + 1 - i]]

MountOutcomes == {"ok", "losetupFail", "mountFail"}

MountImageNoDetach(e, img, out, fails) ==
    LET lp == LoopOf(img) IN
    CASE out = "losetupFail" -> [env |-> e, err |-> Errorf("losetup")]
      [] out = "mountFail" ->
            [env |-> Acquire([e EXCEPT !.loop = @ \cup {lp}], lp), err |-> Errorf("mountImage")]
      [] out = "ok" ->
            [env |-> Acquire(Acquire([e EXCEPT !.loop = @ \cup {lp}, !.mnt = @ \cup {img},
                                                !.imgLoop = @ \cup {img}], lp), img),
             err |-> Nil]

\* MountImage: attach a loop device, mount it; detach on a failing mount
MountImage(e, img, out, fails) ==
    LET lp == LoopOf(img) IN
    CASE out = "losetupFail" -> [env |-> e, err |-> Errorf("losetup")]
      [] out = "mountFail" ->
            LET e1 == Release(Acquire(e, lp), lp) IN
            [env |-> IF lp \in fails
                     THEN ReleaseFailed([e1 EXCEPT !.loop = @ \cup {lp}])
                     ELSE e1,
             err |-> Errorf("mountImage")]
      [] out = "ok" ->
            [env |-> Acquire(Acquire([e EXCEPT !.loop = @ \cup {lp}, !.mnt = @ \cup {img},
                                                !.imgLoop = @ \cup {img}], lp), img),
             err |-> Nil]

UnmountImageKeepsLoop(e, img, fails) ==
    LET lp == LoopOf(img) IN
    IF img \notin e.mnt THEN [env |-> e, err |-> Nil]
    ELSE LET e1 == Release(e, img) IN
         IF img \in fails
         THEN [env |-> ReleaseFailed(e1), err |-> Errorf("unmountImage")]
         ELSE LET e2 == Release([e1 EXCEPT !.mnt = @ \ {img}], lp) IN
              IF lp \in fails
              THEN [env |-> ReleaseFailed(e2), err |-> Errorf("losetupDetach")]
              ELSE [env |-> [e2 EXCEPT !.loop = @ \ {lp}, !.imgLoop = @ \ {img}], err |-> Nil]

\* UnmountImage: does nothing when the mount point is not mounted; unmounts,
\* then detaches the loop device
UnmountImage(e, img, fails) ==
    LET lp == LoopOf(img) IN
    IF img \notin e.mnt THEN [env |-> e, err |-> Nil]
    ELSE LET e1 == Release(e, img) IN
         IF img \in fails
         THEN [env |-> ReleaseFailed(e1), err |-> Errorf("unmountImage")]
         ELSE LET e2 == Release([e1 EXCEPT !.mnt = @ \ {img}, !.imgLoop = @ \ {img}], lp) IN
              IF lp \in fails
              THEN [env |-> ReleaseFailed(e2), err |-> Errorf("losetupDetach")]
              ELSE [env |-> [e2 EXCEPT !.loop = @ \ {lp}], err |-> Nil]

CreateOutcomes == {"ok", "createFail", "mkfsFail"}

\* CreateFileSystemImage: create, truncate and format the image file; a
\* failure after the file was created removes it again
CreateFileSystemImage(e, img, out) ==
    CASE out = "createFail" -> [env |-> e, err |-> Errorf("create")]
      [] out = "mkfsFail" -> [env |-> [e EXCEPT !.files[FileOf(img)] = "none"], err |-> Errorf("mkfs")]
      [] out = "ok" -> [env |-> [e EXCEPT !.files[FileOf(img)] = "blank"], err |-> Nil]

\* the outcomes DeployImage can have for a source kind ("file" or "dir",
\* the latter standing for directory, container and channel sources), a
\* squashfs or plain image, left mounted or not
DeployOutcomes(src, squash, leaveMounted) ==
    IF src = "file"
    THEN {"ok", "dumpFail"} \cup (IF squash THEN {} ELSE {"labelFail"})
              \cup (IF leaveMounted THEN {"losetupFail", "mountFail"} ELSE {})
    ELSE IF squash
    THEN {"ok", "mkTmpFail", "dumpFail", "dirStructFail", "squashFail"}
    ELSE {"ok", "createFail", "mkfsFail", "losetupFail", "mountFail", "dumpFail", "dirStructFail"}

\* the deferred RemoveAll of the temporary squashfs tree
RemoveSquashTmp(e, fails) ==
    LET e1 == Release(e, "squashTmp") IN
    IF "squashTmp" \in fails THEN ReleaseFailed(e1) ELSE [e1 EXCEPT !.tmp = @ \ {"squashTmp"}]

\* DeployImage for a single-file source: copy to the image file, label it,
\* mount it when asked to leave it mounted
DeployFile(e, img, squash, leaveMounted, out, fails) ==
    LET f == FileOf(img) IN
    CASE out = "dumpFail" ->
            [env |-> UnmountImage([e EXCEPT !.files[f] = "partial"], img, fails).env,
             err |-> Errorf("dumpSource")]
      [] out = "labelFail" ->
            [env |-> [e EXCEPT !.files[f] = "none"], err |-> Errorf("tune2fs")]
      [] out \in {"losetupFail", "mountFail"} ->
            MountImage([e EXCEPT !.files[f] = "new"], img, out, fails)
      [] out = "ok" ->
            LET e1 == [e EXCEPT !.files[f] = "new"] IN
            IF leaveMounted THEN MountImage(e1, img, "ok", fails)
                            ELSE UnmountImage(e1, img, fails)

\* DeployImage for a squashfs image built from a tree: dump into a
\* temporary directory that is removed on every path, then mksquashfs
DeploySquash(e, img, leaveMounted, out, fails) ==
    LET f  == FileOf(img)
        e1 == Acquire([e EXCEPT !.tmp = @ \cup {"squashTmp"}], "squashTmp")
    IN
    CASE out = "mkTmpFail" -> [env |-> e, err |-> Errorf("mkdir")]
      [] out = "dumpFail" ->
            [env |-> RemoveSquashTmp(UnmountImage(e1, img, fails).env, fails),
             err |-> Errorf("dumpSource")]
      [] out = "dirStructFail" ->
            [env |-> RemoveSquashTmp(e1, fails), err |-> Errorf("dirStructure")]
      [] out = "squashFail" ->
            [env |-> RemoveSquashTmp(e1, fails), err |-> Errorf("mksquashfs")]
      [] out = "ok" ->
            LET e2 == [e1 EXCEPT !.files[f] = "new"] IN
            IF leaveMounted THEN [env |-> RemoveSquashTmp(e2, fails), err |-> Nil]
            ELSE LET r == UnmountImage(e2, img, fails) IN
                 [env |-> RemoveSquashTmp(r.env, fails), err |-> r.err]

\* DeployImage for a filesystem image built from a tree: create and format
\* the file, mount it, dump the source into the mount point
DeployTree(e, img, leaveMounted, out, fails) ==
    LET f  == FileOf(img)
        c  == CreateFileSystemImage(e, img, "ok").env
        m  == MountImage(c, img, "ok", fails).env
    IN
    CASE out \in {"createFail", "mkfsFail"} -> CreateFileSystemImage(e, img, out)
      [] out \in {"losetupFail", "mountFail"} -> MountImage(c, img, out, fails)
      [] out = "dumpFail" ->
            [env |-> UnmountImage([m EXCEPT !.files[f] = "partial"], img, fails).env,
             err |-> Errorf("dumpSource")]
      [] out = "dirStructFail" ->
            [env |-> [m EXCEPT !.files[f] = "partial"], err |-> Errorf("dirStructure")]
      [] out = "ok" ->
            LET e1 == [m EXCEPT !.files[f] = "new"] IN
            IF leaveMounted THEN [env |-> e1, err |-> Nil]
                            ELSE UnmountImage(e1, img, fails)

DeployImage(e, img, src, squash, leaveMounted, out, fails) ==
    IF src = "file" THEN DeployFile(e, img, squash, leaveMounted, out, fails)
    ELSE IF squash THEN DeploySquash(e, img, leaveMounted, out, fails)
    ELSE DeployTree(e, img, leaveMounted, out, fails)

-----------------------------------------------------------------------------
(* The callbacks the orchestrators push, and the test callbacks            *)

CbName(n) == <<"cb1", "cb2", "cb3", "cb4", "cb5">>[n]

TestCallbacks == { CbName(n) : n \in 1..MaxPush }

\* the partition an upgrade mounts read-write: Recovery for a recovery
\* upgrade, State otherwise
MountPartOf(c) == IF c.recoveryUpgrade THEN "recovery" ELSE "state"

\* the partitions of the run in mount order
PartsOf(c) == c.parts

\* remove(path): RemoveAll when the path exists
RemoveTmp(e, d, fails) ==
    IF d \notin e.tmp THEN [env |-> e, err |-> Nil]
    ELSE LET e1 == Release(e, d) IN
         IF d \in fails THEN [env |-> ReleaseFailed(e1), err |-> Errorf("remove")]
         ELSE [env |-> [e1 EXCEPT !.tmp = @ \ {d}], err |-> Nil]

\* Fs.RemoveAll(tmpDir) of the downloaded ISO: issued whether or not the
\* directory still exists
RemoveIso(e, fails) ==
    LET e1 == Release(e, "isoTmp") IN
    IF "isoTmp" \in fails THEN [env |-> ReleaseFailed(e1), err |-> Errorf("remove")]
    ELSE [env |-> [e1 EXCEPT !.tmp = @ \ {"isoTmp"}], err |-> Nil]

\* remove(transition image file)
RemoveTransition(e, fails) ==
    IF e.files["transition"] = "none" THEN [env |-> e, err |-> Nil]
    ELSE IF "transition" \in fails THEN [env |-> e, err |-> Errorf("remove")]
    ELSE [env |-> [e EXCEPT !.files["transition"] = "none"], err |-> Nil]

\* remount(mountpoint, "ro"): only when mounted
RemountRO(e, part, fails) ==
    IF part \notin e.mnt THEN [env |-> e, err |-> Nil]
    ELSE [env |-> LogPart(e, "mount", part),
          err |-> IF "remount" \in fails THEN Errorf("remount") ELSE Nil]

\* one callback of the stack, run against the environment
Call(job, e, c, fails) ==
    CASE job \in TestCallbacks ->
            [env |-> e, err |-> IF job \in fails THEN Errorf(job) ELSE Nil]
      [] job = "rmIso"            -> RemoveIso(e, fails)
      [] job = "umountParts"      -> UnmountPartitions(e, Reverse(PartsOf(c)), fails)
      [] job = "umountActive"     -> UnmountImage(e, "activeImg", fails)
      [] job = "umountPart"       -> UnmountPartition(e, MountPartOf(c), fails)
      [] job = "umountPersistent" -> UnmountPartition(e, "persistent", fails)
      [] job = "umountOem"        -> UnmountPartition(e, "oem", fails)
      [] job = "umountTransition" -> UnmountImage(e, "transitionImg", fails)
      [] job = "rmTransition"     -> RemoveTransition(e, fails)
      [] job = "rmUpgradeTmp"     -> RemoveTmp(e, "upgradeTmp", fails)
      [] job = "remountRO"        -> RemountRO(e, MountPartOf(c), fails)

-----------------------------------------------------------------------------
(* CleanStack (pkg/utils)                                                  *)

Push(stk, job) == Append(stk, job)

\* Pop: the most recently pushed callback, nil for an empty stack
Pop(stk) ==
    IF stk = <<>> THEN [job |-> "nil", stack |-> stk]
    ELSE [job |-> stk[Len(stk)], stack |-> SubSeq(stk, 1, Len(stk) - 1)]

\* Cleanup: pop and run every callback, most recent first, collecting the
\* errors behind the prior error
RECURSIVE Drain(_, _, _, _, _, _)
Drain(stk, errs, e, c, fails, done) ==
    IF stk = <<>> THEN [env |-> e, err |-> errs, log |-> done, stack |-> stk]
    ELSE LET p == Pop(stk)
             r == Call(p.job, e, c, fails)
         IN Drain(p.stack, AppendErr(errs, r.err), r.env, c, fails, Append(done, p.job))

\* Cleanup variants a faulty implementation could have
RECURSIVE DrainUntilError(_, _, _, _, _, _)
DrainUntilError(stk, errs, e, c, fails, done) ==
    IF stk = <<>> THEN [env |-> e, err |-> errs, log |-> done, stack |-> stk]
    ELSE LET p == Pop(stk)
             r == Call(p.job, e, c, fails)
         IN IF r.err # Nil
            THEN [env |-> r.env, err |-> AppendErr(errs, r.err), log |-> Append(done, p.job), stack |-> <<>>]
            ELSE DrainUntilError(p.stack, errs, r.env, c, fails, Append(done, p.job))

CleanupStopsAtError(stk, prior, e, c, fails) ==
    DrainUntilError(stk, AppendErr(Nil, prior), e, c, fails, <<>>)

CleanupFifo(stk, prior, e, c, fails) ==
    Drain([i \in 1..Len(stk) |-> stk[Len(stk) + 1 - i]], AppendErr(Nil, prior), e, c, fails, <<>>)

CleanupDropsPrior(stk, prior, e, c, fails) ==
    LET r == Drain(stk, Nil, e, c, fails, <<>>) IN
    IF r.err # Nil THEN r ELSE [r EXCEPT !.err = prior]

CleanupFirstErrorOnly(stk, prior, e, c, fails) ==
    LET r == Drain(stk, AppendErr(Nil, prior), e, c, fails, <<>>) IN
    [r EXCEPT !.err = IF r.err = Nil THEN Nil ELSE <<r.err[1]>>]

Cleanup(stk, prior, e, c, fails) == Drain(stk, AppendErr(Nil, prior), e, c, fails, <<>>)

-----------------------------------------------------------------------------
(* State shared by all specifications                                      *)

\* an image file that does not exist is "none", a missing text file is <<>>
NoFiles == [f \in FileNames |-> IF f \in StateFiles THEN <<>> ELSE "none"]

Zero == [r \in Resources |-> 0]

\* nothing mounted, attached, created or logged
\* the variables of the partitioner and of the chroot executor
toolvars == <<device, disk, cmds, ret, find, jail>>

\* a Disk as NewDisk returns it: nothing loaded yet
NewDisk == [sectorS |-> 0, lastS |-> 0, label |-> "", parts |-> <<>>]

NoFind == [tries |-> 0, lsblk |-> 0, sleeps |-> 0]

\* a Chroot as NewChroot returns it, in the real root
NewChroot == [binds |-> <<>>, root |-> "real", prepared |-> FALSE]

\* no disk and no chroot take part in the run
InitNoTools ==
    /\ device = NewDisk /\ disk = NewDisk /\ cmds = <<>> /\ ret = 0
    /\ find = NoFind /\ jail = NewChroot

InitEnv ==
    /\ mnt = {} /\ loop = {} /\ imgLoop = {} /\ tmp = {}
    /\ acq = Zero /\ rel = Zero /\ relFailed = FALSE /\ partlog = {}
    /\ InitNoTools

SetEnv(e) ==
    /\ mnt' = e.mnt /\ loop' = e.loop /\ imgLoop' = e.imgLoop /\ tmp' = e.tmp
    /\ files' = e.files /\ acq' = e.acq /\ rel' = e.rel
    /\ relFailed' = e.relFailed /\ partlog' = e.partlog
    /\ UNCHANGED toolvars

envvars == <<mnt, loop, imgLoop, tmp, files, acq, rel, relFailed, partlog, toolvars>>

-----------------------------------------------------------------------------
(* The cleanup stack on its own: callbacks cb1, cb2, ... are pushed and    *)
(* popped, then Cleanup(prior) drains the stack.  Which callbacks return   *)
(* an error and the prior error are fixed when the run starts.             *)

InitStack ==
    /\ op = "stack"
    /\ cfg \in [prior : {Nil, Errorf("Former error")}, failing : SUBSET TestCallbacks]
    /\ pc = "push"
    /\ err = Nil
    /\ stack = <<>> /\ pushed = <<>> /\ log = <<>> /\ popped = <<>>
    /\ InitEnv /\ files = NoFiles
    /\ hooks = <<>> /\ deployed = FALSE

StackPush ==
    /\ op = "stack" /\ pc = "push"
    /\ Len(pushed) < MaxPush
    /\ stack' = Push(stack, CbName(Len(pushed) + 1))
    /\ pushed' = Append(pushed, CbName(Len(pushed) + 1))
    /\ UNCHANGED <<op, cfg, pc, err, log, popped, envvars, hooks, deployed>>

StackPop ==
    /\ op = "stack" /\ pc = "push"
    /\ Len(popped) < MaxPush
    /\ stack' = Pop(stack).stack
    /\ popped' = Append(popped, Pop(stack).job)
    /\ UNCHANGED <<op, cfg, pc, err, pushed, log, envvars, hooks, deployed>>

StackCleanup ==
    /\ op = "stack" /\ pc = "push"
    /\ LET r == Cleanup(stack, cfg.prior, Env, cfg, cfg.failing) IN
          /\ err' = r.err
          /\ log' = r.log
          /\ stack' = r.stack
    /\ pc' = "cleaned"
    /\ UNCHANGED <<op, cfg, pushed, popped, envvars, hooks, deployed>>

NextStack == StackPush \/ StackPop \/ StackCleanup

SpecStack == InitStack /\ [][NextStack]_vars

\* the callbacks on the stack when Cleanup was called, oldest first
Remaining == SelectSeq(pushed, LAMBDA j : j \notin SeqToSet(popped))

\* callbacks that were invoked and returned an error
FailedCallbacks == SeqToSet(log) \cap cfg.failing

\* C4: Cleanup invokes every callback that is on the stack, whichever of
\* the callbacks invoked before it returned an error.
CleanupInvokesAll ==
    pc = "cleaned" => \A j \in SeqToSet(Remaining) : j \in SeqToSet(log)

\* three callbacks on the stack, the first one invoked fails, all three ran
CleanupInvokesAllWitness ==
    /\ pc = "cleaned" /\ Len(Remaining) = 3
    /\ Remaining[3] \in cfg.failing
    /\ Len(log) = 3

\* C5: Cleanup invokes the callbacks in reverse push order.
CleanupReverseOrder ==
    pc = "cleaned" => log = Reverse(Remaining)

\* cb1, cb2, cb3 pushed, Cleanup(nil) ran cb3, cb2, cb1
CleanupReverseOrderWitness ==
    /\ pc = "cleaned" /\ cfg.prior = Nil
    /\ pushed = <<"cb1", "cb2", "cb3">>
    /\ log = <<"cb3", "cb2", "cb1">>

\* C6: the error Cleanup returns contains a non-nil prior error, whatever
\* the callbacks return.
CleanupKeepsPrior ==
    (pc = "cleaned" /\ cfg.prior # Nil) => IsSubErr(cfg.prior, err)

\* a prior error and a failing callback
CleanupKeepsPriorWitness ==
    /\ pc = "cleaned" /\ cfg.prior # Nil
    /\ FailedCallbacks # {}
    /\ Len(err) >= 2

\* C7: every error a callback returned is contained in the error Cleanup
\* returns; Cleanup(nil) returns a non-nil error when a callback failed.
CleanupKeepsCallbackErrors ==
    pc = "cleaned" =>
        /\ \A j \in FailedCallbacks : IsSubErr(Errorf(j), err)
        /\ (cfg.prior = Nil /\ FailedCallbacks # {}) => err # Nil

\* Cleanup(nil) with two failing callbacks
CleanupKeepsCallbackErrorsWitness ==
    /\ pc = "cleaned" /\ cfg.prior = Nil
    /\ Cardinality(FailedCallbacks) = 2
    /\ Len(err) = 2

-----------------------------------------------------------------------------
(* The orchestrated runs                                                   *)

AllParts     == <<"oem", "recovery", "state", "persistent">>
NoPersistent == <<"oem", "recovery", "state">>
NoTarget     == <<"oem", "persistent">>

BoolSet == {TRUE, FALSE}

\* flags and host facts of a run; a field an orchestrator does not read
\* keeps its default
DefaultCfg ==
    [recoveryUpgrade |-> FALSE, booted |-> "active", squash |-> FALSE, src |-> "dir",
     iso |-> FALSE, noFormat |-> FALSE, strict |-> TRUE, resetPersistent |-> FALSE,
     host |-> AllParts, parts |-> AllParts]

OldFiles == [f \in FileNames |->
                CASE f = "active"     -> "oldActive"
                  [] f = "passive"    -> "oldPassive"
                  [] f = "recovery"   -> "oldRecovery"
                  [] f = "transition" -> "none"
                  [] f \in StateFiles  -> <<>>]

\* UpgradeSpec as NewUpgradeSpec builds it, and what is mounted on the host
UpgradeCfgs ==
    { [DefaultCfg EXCEPT !.recoveryUpgrade = r, !.squash = q, !.src = s, !.strict = st, !.parts = ps] :
        r \in BoolSet, q \in BoolSet, s \in {"dir", "file"}, st \in BoolSet,
        ps \in {AllParts, NoPersistent, NoTarget} }

\* the live image file of an upgrade and the file the transition image is
\* renamed to
Live == IF cfg.recoveryUpgrade THEN "recovery" ELSE "active"

\* a return that skips the deferred Cleanup
ReturnNoDefer(e) == pc' = "done" /\ err' = e

Return(e) == pc' = "defer" /\ err' = e

Goto(p) == pc' = p /\ err' = Nil

PushJobs(js) == stack' = stack \o js /\ pushed' = pushed \o js

NoPush == UNCHANGED <<stack, pushed>>

Frame == UNCHANGED <<op, cfg, log, popped>>

\* the release calls a callback issues
CallTargets(job, c) ==
    CASE job \in TestCallbacks      -> {job}
      [] job = "rmIso"            -> {"isoTmp"}
      [] job = "umountParts"      -> SeqToSet(PartsOf(c))
      [] job = "umountActive"     -> {"activeImg", "activeLoop"}
      [] job = "umountPart"       -> {MountPartOf(c)}
      [] job = "umountPersistent" -> {"persistent"}
      [] job = "umountOem"        -> {"oem"}
      [] job = "umountTransition" -> {"transitionImg", "transitionLoop"}
      [] job = "rmTransition"     -> {"transition"}
      [] job = "rmUpgradeTmp"     -> {"upgradeTmp"}
      [] job = "remountRO"        -> {"remount"}

\* the release calls that draining the stack can issue in the current
\* environment, each of which can fail
ReleaseTargets ==
    (UNION { CallTargets(stack[i], cfg) : i \in 1..Len(stack) })
        \cap (mnt \cup loop \cup tmp \cup {"transition", "remount", "isoTmp"})

\* Hook / ChrootHook: the stage error is dropped unless strict; a chroot
\* that cannot be set up fails the hook in either mode
HookOutcomes(chroot) == {"ok", "stageFail"} \cup (IF chroot THEN {"chrootFail"} ELSE {})

\* RunStage: the errors of the stage are returned in strict mode; otherwise
\* they are reported with Logger.Warn and nil is returned
RunStage(c, stage, out) ==
    IF out = "stageFail"
    THEN IF c.strict
         THEN [err |-> Errorf(stage), calls |-> <<[c |-> "RunStage", ops |-> stage, ok |-> FALSE]>>]
         ELSE [err |-> Nil, calls |-> <<[c |-> "RunStage", ops |-> stage, ok |-> FALSE],
                                        [c |-> "Warn", ops |-> stage, ok |-> TRUE]>>]
    ELSE [err |-> Nil, calls |-> <<[c |-> "RunStage", ops |-> stage, ok |-> TRUE]>>]

\* the variant that drops the stage error in strict mode too
HookIgnoresStrict(c, hook, out) ==
    IF out = "chrootFail" THEN Errorf("chroot") ELSE Nil

Hook(c, hook, out) ==
    IF out = "chrootFail"
    THEN Errorf("chroot")
    ELSE IF ~c.strict THEN Nil ELSE RunStage(c, hook, out).err

\* what a hook step leaves in the list of calls: the stage run and its
\* warning, or the chroot that could not be entered
HookCalls(c, hook, out) ==
    IF out = "chrootFail"
    THEN <<[c |-> "ChrootedCallback", ops |-> hook, ok |-> FALSE]>>
    ELSE RunStage(c, hook, out).calls

\* a step that runs one hook and returns its error
HookStep(o, at, next, hook, chroot) ==
    /\ op = o /\ pc = at
    /\ \E out \in HookOutcomes(chroot) :
          LET e == Hook(cfg, hook, out) IN
          /\ IF e # Nil THEN Return(e) /\ hooks' = hooks
                        ELSE Goto(next) /\ hooks' = Append(hooks, hook)
          /\ cmds' = cmds \o HookCalls(cfg, hook, out)
    /\ Frame /\ NoPush
    /\ UNCHANGED <<mnt, loop, imgLoop, tmp, files, acq, rel, relFailed, partlog,
                   device, disk, ret, find, jail, deployed>>

-----------------------------------------------------------------------------
(* UpgradeAction.Run                                                       *)

UpgradeStart ==
    /\ op = "upgrade" /\ pc = "start"
    /\ IF MountPartOf(cfg) \in SeqToSet(cfg.parts)
          THEN Goto("mount")
          ELSE Return(Errorf("unset partition"))
    /\ Frame /\ NoPush /\ UNCHANGED <<envvars, hooks, deployed>>

UpgradeMount ==
    /\ op = "upgrade" /\ pc = "mount"
    /\ \E ok \in BoolSet :
          LET part == MountPartOf(cfg)
              r == MountPartition(Env, part, part \in mnt, ok)
          IN /\ SetEnv(r.env)
             /\ IF r.err # Nil
                  THEN Return(r.err) /\ NoPush
                  ELSE /\ Goto("persistent")
                       /\ PushJobs((IF part \in mnt THEN <<>> ELSE <<"umountPart">>)
                                     \o <<"rmTransition">>)
    /\ Frame /\ UNCHANGED <<hooks, deployed>>

UpgradePersistent ==
    /\ op = "upgrade" /\ pc = "persistent"
    /\ IF "persistent" \in SeqToSet(cfg.parts) /\ "persistent" \notin mnt
          THEN \E ok \in BoolSet :
                 LET r == MountPartition(Env, "persistent", FALSE, ok) IN
                 /\ SetEnv(r.env)
                 /\ IF r.err # Nil THEN NoPush ELSE PushJobs(<<"umountPersistent">>)
          ELSE NoPush /\ UNCHANGED envvars
    /\ pc' = "before"
    /\ Frame /\ UNCHANGED <<err, hooks, deployed>>

UpgradeBeforeHook ==
    /\ op = "upgrade"
    /\ HookStep("upgrade", "before", "deploy", "before-upgrade", FALSE)

\* the upgrade image is a squashfs only for a squashed recovery
UpgradeSquash(c) == c.recoveryUpgrade /\ c.squash

UpgradeDeploy ==
    /\ op = "upgrade" /\ pc = "deploy"
    /\ \E out \in DeployOutcomes(cfg.src, UpgradeSquash(cfg), TRUE),
          fails \in SUBSET {"transitionImg", "transitionLoop", "squashTmp"} :
          LET r == DeployImage(Env, "transitionImg", cfg.src, UpgradeSquash(cfg), TRUE, out, fails) IN
          /\ SetEnv(r.env)
          /\ IF r.err # Nil
               THEN Return(r.err) /\ NoPush /\ deployed' = deployed
               ELSE Goto("chroot") /\ PushJobs(<<"umountTransition">>) /\ deployed' = TRUE
    /\ Frame /\ UNCHANGED hooks

UpgradeChrootHook ==
    /\ op = "upgrade"
    /\ HookStep("upgrade", "chroot", "rebrand", "after-upgrade-chroot", TRUE)

UpgradeRebrand ==
    /\ op = "upgrade" /\ pc = "rebrand"
    /\ IF cfg.recoveryUpgrade
          THEN Goto("after") /\ UNCHANGED envvars
          ELSE \E entry \in BoolSet, ok \in BoolSet :
                 IF ~entry THEN Goto("after") /\ UNCHANGED envvars
                 ELSE /\ SetEnv(LogPart(Env, "write", "state"))
                      /\ IF ok THEN Goto("after") ELSE Return(Errorf("grubenv"))
    /\ Frame /\ NoPush /\ UNCHANGED <<hooks, deployed>>

UpgradeAfterHook ==
    /\ op = "upgrade"
    /\ HookStep("upgrade", "after", "umountImg", "after-upgrade", FALSE)

UpgradeUnmountImage ==
    /\ op = "upgrade" /\ pc = "umountImg"
    /\ \E fails \in SUBSET {"transitionImg", "transitionLoop"} :
          LET r == UnmountImage(Env, "transitionImg", fails) IN
          /\ SetEnv(r.env)
          /\ IF r.err # Nil THEN Return(r.err) ELSE Goto("backup")
    /\ Frame /\ NoPush /\ UNCHANGED <<hooks, deployed>>

\* mv -f source destination
Move(e, from, to) == [e EXCEPT !.files[to] = e.files[from], !.files[from] = "none"]

UpgradeBackup ==
    /\ op = "upgrade" /\ pc = "backup"
    /\ IF cfg.recoveryUpgrade
          THEN Goto("move") /\ UNCHANGED envvars
          ELSE \E ok \in BoolSet :
                 IF ok THEN SetEnv(Move(LogPart(Env, "write", "state"), "active", "passive")) /\ Goto("label")
                       ELSE UNCHANGED envvars /\ Return(Errorf("mv"))
    /\ Frame /\ NoPush /\ UNCHANGED <<hooks, deployed>>

UpgradeLabel ==
    /\ op = "upgrade" /\ pc = "label"
    /\ \E ok \in BoolSet : IF ok THEN Goto("move") ELSE Return(Errorf("tune2fs"))
    /\ Frame /\ NoPush /\ UNCHANGED <<envvars, hooks, deployed>>

UpgradeMove ==
    /\ op = "upgrade" /\ pc = "move"
    /\ \E ok \in BoolSet :
          IF ok THEN SetEnv(Move(LogPart(Env, "write", MountPartOf(cfg)), "transition", Live)) /\ Goto("cleanup")
                ELSE UNCHANGED envvars /\ Return(Errorf("mv"))
    /\ Frame /\ NoPush /\ UNCHANGED <<hooks, deployed>>

-----------------------------------------------------------------------------
(* UpgradeAction.Run, older revision                                       *)

OldUpgradeCfgs ==
    { [DefaultCfg EXCEPT !.recoveryUpgrade = r, !.squash = q, !.booted = b, !.strict = st, !.parts = ps] :
        r \in BoolSet, q \in BoolSet, b \in {"active", "passive", "recovery"}, st \in BoolSet,
        ps \in {AllParts, NoPersistent} }

\* the state directory is mounted afresh, not remounted, when upgrading the
\* system from recovery or the recovery from the system
OldFreshMount(c) ==
    \/ ~c.recoveryUpgrade /\ c.booted = "recovery"
    \/ c.recoveryUpgrade /\ c.booted # "recovery"

OldTmp ==
    /\ op = "upgradeOld" /\ pc = "start"
    /\ \E ok \in BoolSet :
          IF ok THEN /\ SetEnv(Acquire([Env EXCEPT !.tmp = @ \cup {"upgradeTmp"}], "upgradeTmp"))
                     /\ PushJobs(<<"rmUpgradeTmp">>)
                     /\ Goto("find")
                ELSE UNCHANGED envvars /\ NoPush /\ Return(Errorf("mkdir"))
    /\ Frame /\ UNCHANGED <<hooks, deployed>>

OldFind ==
    /\ op = "upgradeOld" /\ pc = "find"
    /\ \E ok \in BoolSet : IF ok THEN Goto("prepare") ELSE Return(Errorf("device"))
    /\ Frame /\ NoPush /\ UNCHANGED <<envvars, hooks, deployed>>

\* booted from recovery to upgrade the system: OEM and Persistent are
\* mounted too, a failing mount is only warned about
OldPrepare ==
    /\ op = "upgradeOld" /\ pc = "prepare"
    /\ IF ~cfg.recoveryUpgrade /\ cfg.booted = "recovery"
          THEN \E okO \in BoolSet, okP \in BoolSet :
                 LET hasO == "oem" \in SeqToSet(cfg.parts)
                     hasP == "persistent" \in SeqToSet(cfg.parts)
                     e1 == IF hasO THEN MountPartition(Env, "oem", FALSE, okO).env ELSE Env
                     e2 == IF hasP THEN MountPartition(e1, "persistent", FALSE, okP).env ELSE e1
                 IN /\ SetEnv(e2)
                    /\ PushJobs(<<"umountPart">>
                                  \o (IF hasO /\ okO THEN <<"umountOem">> ELSE <<>>)
                                  \o (IF hasP /\ okP THEN <<"umountPersistent">> ELSE <<>>))
          ELSE /\ UNCHANGED envvars
               /\ PushJobs(IF OldFreshMount(cfg) THEN <<"umountPart">> ELSE <<>>)
    /\ pc' = "mount"
    /\ Frame /\ UNCHANGED <<err, hooks, deployed>>

OldMount ==
    /\ op = "upgradeOld" /\ pc = "mount"
    /\ \E ok \in BoolSet :
          LET r == MountPartition(Env, MountPartOf(cfg), ~OldFreshMount(cfg), ok) IN
          /\ SetEnv(r.env)
          /\ IF r.err # Nil
               THEN Return(r.err) /\ NoPush
               ELSE /\ Goto("create")
                    /\ PushJobs((IF cfg.booted # "recovery" THEN <<"remountRO">> ELSE <<>>)
                                  \o <<"rmTransition">>)
    /\ Frame /\ UNCHANGED <<hooks, deployed>>

\* transition.img is created and mounted on the upgrade directory; the
\* result of MountImage is overwritten by the next assignment to err
OldCreate ==
    /\ op = "upgradeOld" /\ pc = "create"
    /\ IF cfg.squash
          THEN UNCHANGED envvars /\ Goto("before")
          ELSE \E co \in CreateOutcomes, mo \in MountOutcomes, fails \in SUBSET {"transitionLoop"} :
                 LET c == CreateFileSystemImage(Env, "transitionImg", co) IN
                 IF c.err # Nil
                 THEN SetEnv(c.env) /\ Return(c.err)
                 ELSE SetEnv(MountImage(c.env, "transitionImg", mo, fails).env) /\ Goto("before")
    /\ Frame /\ NoPush /\ UNCHANGED <<hooks, deployed>>

OldBeforeHook ==
    /\ op = "upgradeOld"
    /\ HookStep("upgradeOld", "before", "copy", "before-upgrade", FALSE)

\* CopyActive: the source tree is copied into the mount point of the image
CopyActive(e, img, ok) ==
    IF img \notin e.mnt THEN [env |-> e, err |-> IF ok THEN Nil ELSE Errorf("copyActive")]
    ELSE IF ok THEN [env |-> [e EXCEPT !.files[FileOf(img)] = "new"], err |-> Nil]
    ELSE [env |-> [e EXCEPT !.files[FileOf(img)] = "partial"], err |-> Errorf("copyActive")]

OldCopy ==
    /\ op = "upgradeOld" /\ pc = "copy"
    /\ \E ok \in BoolSet :
          LET r == CopyActive(Env, "transitionImg", ok) IN
          /\ SetEnv(r.env)
          /\ IF r.err # Nil THEN Return(r.err) /\ deployed' = deployed
                            ELSE Goto("chroot") /\ deployed' = TRUE
    /\ Frame /\ NoPush /\ UNCHANGED hooks

OldChrootHook ==
    /\ op = "upgradeOld"
    /\ HookStep("upgradeOld", "chroot", "rebrand", "after-upgrade-chroot", TRUE)

OldRebrand ==
    /\ op = "upgradeOld" /\ pc = "rebrand"
    /\ \E ok \in BoolSet :
          /\ SetEnv(LogPart(Env, "write", "state"))
          /\ IF ok THEN Goto("after") ELSE Return(Errorf("rebrand"))
    /\ Frame /\ NoPush /\ UNCHANGED <<hooks, deployed>>

OldAfterHook ==
    /\ op = "upgradeOld"
    /\ HookStep("upgradeOld", "after", "umountImg", "after-upgrade", FALSE)

OldUnmountImage ==
    /\ op = "upgradeOld" /\ pc = "umountImg"
    /\ IF cfg.squash
          THEN UNCHANGED envvars /\ Goto("backup")
          ELSE \E fails \in SUBSET {"transitionImg", "transitionLoop"} :
                 LET r == UnmountImage(Env, "transitionImg", fails) IN
                 /\ SetEnv(r.env)
                 /\ IF r.err # Nil THEN Return(r.err) ELSE Goto("backup")
    /\ Frame /\ NoPush /\ UNCHANGED <<hooks, deployed>>

OldBackup ==
    /\ op = "upgradeOld" /\ pc = "backup"
    /\ IF cfg.booted = "active" /\ ~cfg.recoveryUpgrade
          THEN \E ok \in BoolSet :
                 IF ok THEN SetEnv(Move(LogPart(Env, "write", "state"), "active", "passive")) /\ Goto("label")
                       ELSE UNCHANGED envvars /\ Return(Errorf("mv"))
          ELSE UNCHANGED envvars /\ Goto("squash")
    /\ Frame /\ NoPush /\ UNCHANGED <<hooks, deployed>>

OldLabel ==
    /\ op = "upgradeOld" /\ pc = "label"
    /\ \E ok \in BoolSet : IF ok THEN Goto("squash") ELSE Return(Errorf("tune2fs"))
    /\ Frame /\ NoPush /\ UNCHANGED <<envvars, hooks, deployed>>

\* a squashed recovery is built from the upgrade directory only now
OldSquash ==
    /\ op = "upgradeOld" /\ pc = "squash"
    /\ IF cfg.squash
          THEN \E ok \in BoolSet :
                 IF ok THEN SetEnv([LogPart(Env, "write", MountPartOf(cfg)) EXCEPT !.files["transition"] = "new"])
                            /\ Goto("move")
                       ELSE UNCHANGED envvars /\ Return(Errorf("mksquashfs"))
          ELSE UNCHANGED envvars /\ Goto("move")
    /\ Frame /\ NoPush /\ UNCHANGED <<hooks, deployed>>

OldMove ==
    /\ op = "upgradeOld" /\ pc = "move"
    /\ \E ok \in BoolSet :
          IF ok /\ files["transition"] # "none"
          THEN SetEnv(Move(LogPart(Env, "write", MountPartOf(cfg)), "transition", Live)) /\ Goto("cleanup")
          ELSE UNCHANGED envvars /\ Return(Errorf("mv"))
    /\ Frame /\ NoPush /\ UNCHANGED <<hooks, deployed>>

-----------------------------------------------------------------------------
(* InstallAction.Run                                                       *)

InstallCfgs ==
    { [DefaultCfg EXCEPT !.iso = i, !.noFormat = n, !.src = sr, !.squash = q, !.strict = st] :
        i \in BoolSet, n \in BoolSet, sr \in {"dir", "file"}, q \in BoolSet, st \in BoolSet }

InstallBeforeHook ==
    /\ op = "install"
    /\ HookStep("install", "start", "iso", "before-install", FALSE)

IsoOutcomes == {"ok", "tmpFail", "sourceFail", "rootfsFail"}

\* GetIso: temporary directory, download, mount the ISO, mount its rootfs;
\* on an error the deferred functions unmount the ISO and remove the
\* directory, on success both mounts and the directory stay
GetIso(e, out, fails) ==
    LET t  == Acquire([e EXCEPT !.tmp = @ \cup {"isoTmp"}], "isoTmp")
        m  == Acquire([t EXCEPT !.mnt = @ \cup {"iso"}], "iso")
        rm(x) == RemoveIso(x, fails).env
        um(x) == LET x1 == Release(x, "iso") IN
                 IF "iso" \in fails THEN ReleaseFailed(x1) ELSE [x1 EXCEPT !.mnt = @ \ {"iso"}]
    IN
    CASE out = "tmpFail"    -> [env |-> e, err |-> Errorf("tempdir")]
      [] out = "sourceFail" -> [env |-> rm(t), err |-> Errorf("getSource")]
      [] out = "rootfsFail" -> [env |-> rm(um(m)), err |-> Errorf("mountRootfs")]
      [] out = "ok" ->
            [env |-> Acquire([m EXCEPT !.mnt = @ \cup {"rootfs"}], "rootfs"), err |-> Nil]

InstallIso ==
    /\ op = "install" /\ pc = "iso"
    /\ IF ~cfg.iso
          THEN UNCHANGED envvars /\ NoPush /\ Goto("partition")
          ELSE \E out \in IsoOutcomes, fails \in SUBSET {"iso", "isoTmp"} :
                 LET r == GetIso(Env, out, fails) IN
                 /\ SetEnv(r.env)
                 /\ IF r.err # Nil THEN Return(r.err) /\ NoPush
                                   ELSE Goto("partition") /\ PushJobs(<<"rmIso">>)
    /\ Frame /\ UNCHANGED <<hooks, deployed>>

\* FormatPartition / mkfs on a partition: the image files on it are gone
FormatPartition(e, part) ==
    [LogPart(e, "format", part) EXCEPT
        !.files = [f \in FileNames |-> IF PartOfFile(f) = part THEN NoFiles[f] ELSE e.files[f]]]

\* createPartitions: create and format in order, stop at the first failure
RECURSIVE FormatEach(_, _, _, _)
FormatEach(e, parts, i, failAt) ==
    IF i > Len(parts) THEN [env |-> e, err |-> Nil]
    ELSE IF i = failAt THEN [env |-> LogPart(e, "format", parts[i]), err |-> Errorf("format")]
    ELSE FormatEach(FormatPartition(e, parts[i]), parts, i + 1, failAt)

InstallPartition ==
    /\ op = "install" /\ pc = "partition"
    /\ IF cfg.noFormat
          THEN \E refuse \in BoolSet :
                 /\ UNCHANGED envvars
                 /\ IF refuse THEN Return(Errorf("use force")) ELSE Goto("mount")
          ELSE \E failAt \in 0..Len(cfg.parts) :
                 LET r == FormatEach(Env, cfg.parts, 1, failAt) IN
                 /\ SetEnv(r.env)
                 /\ IF r.err # Nil THEN Return(r.err) ELSE Goto("mount")
    /\ Frame /\ NoPush /\ UNCHANGED <<hooks, deployed>>

InstallMount ==
    /\ op = "install" /\ pc = "mount"
    /\ \E failAt \in 0..Len(cfg.parts), fails \in SUBSET SeqToSet(cfg.parts) :
          LET r == MountPartitions(Env, cfg.parts, failAt, fails) IN
          /\ SetEnv(r.env)
          /\ IF r.err # Nil THEN Return(r.err) /\ NoPush
                            ELSE Goto("deployActive") /\ PushJobs(<<"umountParts">>)
    /\ Frame /\ UNCHANGED <<hooks, deployed>>

\* a step that deploys one image and returns the error of DeployImage
DeployStep(o, at, next, img, src, squash, leaveMounted, job) ==
    /\ op = o /\ pc = at
    /\ \E out \in DeployOutcomes(src, squash, leaveMounted),
          fails \in SUBSET {img, LoopOf(img), "squashTmp"} :
          LET r == DeployImage(Env, img, src, squash, leaveMounted, out, fails) IN
          /\ SetEnv(r.env)
          /\ IF r.err # Nil THEN Return(r.err) /\ NoPush
                            ELSE Goto(next) /\ PushJobs(job)
    /\ Frame /\ UNCHANGED <<hooks, deployed>>

InstallDeployActive ==
    /\ op = "install"
    /\ DeployStep("install", "deployActive", "cloudConfig", "activeImg", cfg.src, FALSE, TRUE, <<"umountActive">>)

\* a step whose only effect on the run is its error
PlainStep(o, at, next, what, part) ==
    /\ op = o /\ pc = at
    /\ \E ok \in BoolSet :
          /\ SetEnv(LogPart(Env, "write", part))
          /\ IF ok THEN Goto(next) ELSE Return(Errorf(what))
    /\ Frame /\ NoPush /\ UNCHANGED <<hooks, deployed>>

InstallCloudConfig ==
    /\ op = "install"
    /\ PlainStep("install", "cloudConfig", "grub", "cloudConfig", "oem")

InstallGrub ==
    /\ op = "install"
    /\ PlainStep("install", "grub", "chroot", "grub", "state")

InstallChrootHook ==
    /\ op = "install"
    /\ HookStep("install", "chroot", "umountActive", "after-install-chroot", TRUE)

\* a step that unmounts the active image and returns the error
UnmountStep(o, at, next, img) ==
    /\ op = o /\ pc = at
    /\ \E fails \in SUBSET {img, LoopOf(img)} :
          LET r == UnmountImage(Env, img, fails) IN
          /\ SetEnv(r.env)
          /\ IF r.err # Nil THEN Return(r.err) ELSE Goto(next)
    /\ Frame /\ NoPush /\ UNCHANGED <<hooks, deployed>>

\* the variant that deploys the other images with the active image mounted
InstallKeepsActiveMounted ==
    /\ op = "install" /\ pc = "umountActive"
    /\ Goto("deployRecovery")
    /\ Frame /\ NoPush /\ UNCHANGED <<envvars, hooks, deployed>>

InstallUnmountActive ==
    /\ op = "install"
    /\ UnmountStep("install", "umountActive", "deployRecovery", "activeImg")

InstallDeployRecovery ==
    /\ op = "install"
    /\ DeployStep("install", "deployRecovery", "deployPassive", "recoveryImg", "file", cfg.squash, FALSE, <<>>)

InstallDeployPassive ==
    /\ op = "install"
    /\ DeployStep("install", "deployPassive", "after", "passiveImg", "file", FALSE, FALSE, <<>>)

InstallAfterHook ==
    /\ op = "install"
    /\ HookStep("install", "after", "rebrand", "after-install", FALSE)

InstallRebrand ==
    /\ op = "install"
    /\ PlainStep("install", "rebrand", "cleanup", "grubenv", "state")

InstallNext ==
    \/ InstallBeforeHook \/ InstallIso \/ InstallPartition \/ InstallMount
    \/ InstallDeployActive \/ InstallCloudConfig \/ InstallGrub \/ InstallChrootHook
    \/ InstallUnmountActive \/ InstallDeployRecovery \/ InstallDeployPassive
    \/ InstallAfterHook \/ InstallRebrand

-----------------------------------------------------------------------------
(* ResetSetup and ResetRun (older revision), NewResetSpec (current)        *)

ResetCfgs ==
    { [DefaultCfg EXCEPT !.booted = b, !.resetPersistent = rp, !.strict = st, !.host = h, !.parts = <<>>] :
        b \in {"active", "passive", "recovery"}, rp \in BoolSet, st \in BoolSet,
        h \in {AllParts, NoPersistent, <<"recovery", "state">>, <<"oem", "recovery">>} }

\* BootedFrom(recovery squash file) or BootedFrom(system label)
BootedFromRecovery(c) == c.booted = "recovery"

\* every partition of the host, Recovery included
ResetPartsAll(c) == c.host

\* the partitions ResetSetup looks up by label and configures: OEM, State
\* and Persistent when present
ResetParts(c) == SelectSeq(c.host, LAMBDA x : x \in {"oem", "state", "persistent"})

\* NewResetSpec takes every host partition and deletes Recovery
NewResetParts(c) == SelectSeq(c.host, LAMBDA x : x # "recovery")

ResetSetup ==
    /\ op = "reset" /\ pc = "start"
    /\ IF ~BootedFromRecovery(cfg)
          THEN pc' = "done" /\ err' = Errorf("ResetSetup: not recovery") /\ cfg' = cfg
          ELSE IF "state" \notin SeqToSet(cfg.host)
          THEN pc' = "done" /\ err' = Errorf("device") /\ cfg' = cfg
          ELSE pc' = "before" /\ err' = err /\ cfg' = [cfg EXCEPT !.parts = ResetParts(cfg)]
    /\ UNCHANGED <<op, stack, pushed, log, popped, envvars, hooks, deployed>>

NewResetSpec ==
    /\ op = "resetSpec" /\ pc = "start"
    /\ IF ~BootedFromRecovery(cfg)
          THEN err' = Errorf("NewResetSpec: not recovery") /\ cfg' = cfg
          ELSE IF "state" \notin SeqToSet(cfg.host)
          THEN err' = Errorf("state partition") /\ cfg' = cfg
          ELSE err' = Nil /\ cfg' = [cfg EXCEPT !.parts = NewResetParts(cfg)]
    /\ pc' = "done"
    /\ UNCHANGED <<op, stack, pushed, log, popped, envvars, hooks, deployed>>

ResetBeforeHook ==
    /\ op = "reset"
    /\ HookStep("reset", "before", "unmount", "before-reset", FALSE)

ResetUnmount ==
    /\ op = "reset" /\ pc = "unmount"
    /\ \E fails \in SUBSET (SeqToSet(cfg.parts) \cap mnt) :
          LET r == UnmountPartitions(Env, cfg.parts, fails) IN
          /\ SetEnv(r.env)
          /\ IF r.err # Nil THEN Return(r.err) ELSE Goto("formatState")
    /\ Frame /\ NoPush /\ UNCHANGED <<hooks, deployed>>

ResetFormatState ==
    /\ op = "reset" /\ pc = "formatState"
    /\ \E ok \in BoolSet :
          IF ok THEN SetEnv(FormatPartition(Env, "state")) /\ Goto("formatPersistent")
                ELSE SetEnv(LogPart(Env, "format", "state")) /\ Return(Errorf("format"))
    /\ Frame /\ NoPush /\ UNCHANGED <<hooks, deployed>>

\* with reset-persistent: Persistent, then OEM, when configured
ResetFormatPersistent ==
    /\ op = "reset" /\ pc = "formatPersistent"
    /\ IF cfg.resetPersistent
          THEN LET ps == SelectSeq(<<"persistent", "oem">>, LAMBDA x : x \in SeqToSet(cfg.parts)) IN
               \E failAt \in 0..Len(ps) :
                  LET r == FormatEach(Env, ps, 1, failAt) IN
                  /\ SetEnv(r.env)
                  /\ IF r.err # Nil THEN Return(r.err) ELSE Goto("mount")
          ELSE UNCHANGED envvars /\ Goto("mount")
    /\ Frame /\ NoPush /\ UNCHANGED <<hooks, deployed>>

ResetMount ==
    /\ op = "reset" /\ pc = "mount"
    /\ \E failAt \in 0..Len(cfg.parts), fails \in SUBSET SeqToSet(cfg.parts) :
          LET r == MountPartitions(Env, cfg.parts, failAt, fails) IN
          /\ SetEnv(r.env)
          /\ IF r.err # Nil THEN Return(r.err) /\ NoPush
                            ELSE Goto("image") /\ PushJobs(<<"umountParts">>)
    /\ Frame /\ UNCHANGED <<hooks, deployed>>

\* the source ResetSetup configures is never a single file: the image is
\* created and mounted before the copy
ResetImage ==
    /\ op = "reset" /\ pc = "image"
    /\ \E co \in CreateOutcomes, mo \in MountOutcomes, fails \in SUBSET {"activeLoop"} :
          LET c == CreateFileSystemImage(Env, "activeImg", co)
              m == MountImage(c.env, "activeImg", mo, fails)
          IN IF c.err # Nil THEN SetEnv(c.env) /\ Return(c.err) /\ NoPush
             ELSE /\ SetEnv(m.env)
                  /\ IF m.err # Nil THEN Return(m.err) /\ NoPush
                                    ELSE Goto("copy") /\ PushJobs(<<"umountActive">>)
    /\ Frame /\ UNCHANGED <<hooks, deployed>>

ResetCopy ==
    /\ op = "reset" /\ pc = "copy"
    /\ \E ok \in BoolSet :
          LET r == CopyActive(Env, "activeImg", ok) IN
          /\ SetEnv(r.env)
          /\ IF r.err # Nil THEN Return(r.err) /\ deployed' = deployed
                            ELSE Goto("grub") /\ deployed' = TRUE
    /\ Frame /\ NoPush /\ UNCHANGED hooks

ResetGrub ==
    /\ op = "reset"
    /\ PlainStep("reset", "grub", "chroot", "grub", "state")

ResetChrootHook ==
    /\ op = "reset"
    /\ HookStep("reset", "chroot", "umountActive", "after-reset-chroot", TRUE)

ResetUnmountImage ==
    /\ op = "reset"
    /\ UnmountStep("reset", "umountActive", "passive", "activeImg")

\* CopyPassive: passive.img becomes a copy of the new active.img
ResetPassive ==
    /\ op = "reset" /\ pc = "passive"
    /\ \E ok \in BoolSet :
          IF ok THEN SetEnv([LogPart(Env, "write", "state") EXCEPT !.files["passive"] = files["active"]])
                     /\ Goto("after")
                ELSE SetEnv(LogPart(Env, "write", "state")) /\ Return(Errorf("copyPassive"))
    /\ Frame /\ NoPush /\ UNCHANGED <<hooks, deployed>>

ResetAfterHook ==
    /\ op = "reset"
    /\ HookStep("reset", "after", "rebrand", "after-reset", FALSE)

ResetRebrand ==
    /\ op = "reset"
    /\ PlainStep("reset", "rebrand", "cleanup", "rebrand", "state")

ResetNext ==
    \/ ResetSetup \/ NewResetSpec \/ ResetBeforeHook \/ ResetUnmount \/ ResetFormatState
    \/ ResetFormatPersistent \/ ResetMount \/ ResetImage \/ ResetCopy \/ ResetGrub
    \/ ResetChrootHook \/ ResetUnmountImage \/ ResetPassive \/ ResetAfterHook \/ ResetRebrand

-----------------------------------------------------------------------------
(* The end of every run: the explicit Cleanup before reboot / power off,   *)
(* and the deferred Cleanup every return goes through                      *)

RunOps == {"install", "upgrade", "upgradeOld", "reset"}

\* the variant that goes on to the power action whatever Cleanup returned
RunCleanupThenPower ==
    /\ op \in RunOps /\ pc = "cleanup"
    /\ \E fails \in SUBSET ReleaseTargets :
          LET r == Cleanup(stack, err, Env, cfg, fails) IN
          /\ SetEnv(r.env)
          /\ log' = log \o r.log
          /\ stack' = r.stack
          /\ err' = r.err
          /\ pc' = "power"
    /\ UNCHANGED <<op, cfg, pushed, popped, hooks, deployed>>

RunCleanup ==
    /\ op \in RunOps /\ pc = "cleanup"
    /\ \E fails \in SUBSET ReleaseTargets :
          LET r == Cleanup(stack, err, Env, cfg, fails) IN
          /\ SetEnv(r.env)
          /\ log' = log \o r.log
          /\ stack' = r.stack
          /\ err' = r.err
          /\ pc' = IF r.err # Nil THEN "defer" ELSE "power"
    /\ UNCHANGED <<op, cfg, pushed, popped, hooks, deployed>>

\* reboot, power off or nothing, as the Reboot and PowerOff flags say; the
\* error of utils.Reboot or utils.Shutdown is the error of the run
RunPower ==
    /\ op \in RunOps /\ pc = "power"
    /\ \E power \in {"none", "reboot", "poweroff"}, ok \in BoolSet :
          IF power = "none"
          THEN Return(err) /\ cmds' = cmds
          ELSE /\ Return(IF ok THEN Nil ELSE Errorf(power))
               /\ cmds' = Append(cmds, [c |-> power, ops |-> "5", ok |-> ok])
    /\ Frame /\ NoPush
    /\ UNCHANGED <<mnt, loop, imgLoop, tmp, files, acq, rel, relFailed, partlog,
                   device, disk, ret, find, jail, hooks, deployed>>

RunDeferred ==
    /\ op \in RunOps /\ pc = "defer"
    /\ \E fails \in SUBSET ReleaseTargets :
          LET r == Cleanup(stack, err, Env, cfg, fails) IN
          /\ SetEnv(r.env)
          /\ log' = log \o r.log
          /\ stack' = r.stack
          /\ err' = r.err
    /\ pc' = "done"
    /\ UNCHANGED <<op, cfg, pushed, popped, hooks, deployed>>

UpgradeNext ==
    \/ UpgradeStart \/ UpgradeMount \/ UpgradePersistent \/ UpgradeBeforeHook
    \/ UpgradeDeploy \/ UpgradeChrootHook \/ UpgradeRebrand \/ UpgradeAfterHook
    \/ UpgradeUnmountImage \/ UpgradeBackup \/ UpgradeLabel \/ UpgradeMove

OldUpgradeNext ==
    \/ OldTmp \/ OldFind \/ OldPrepare \/ OldMount \/ OldCreate \/ OldBeforeHook
    \/ OldCopy \/ OldChrootHook \/ OldRebrand \/ OldAfterHook \/ OldUnmountImage
    \/ OldBackup \/ OldLabel \/ OldSquash \/ OldMove

InitRunCommon ==
    /\ pc = "start"
    /\ err = Nil
    /\ stack = <<>> /\ pushed = <<>> /\ log = <<>> /\ popped = <<>>
    /\ loop = {} /\ imgLoop = {} /\ tmp = {}
    /\ acq = Zero /\ rel = Zero /\ relFailed = FALSE /\ partlog = {}
    /\ hooks = <<>> /\ deployed = FALSE
    /\ InitNoTools

InitInstall ==
    /\ op = "install"
    /\ cfg \in InstallCfgs
    /\ mnt = {}
    /\ files = NoFiles
    /\ InitRunCommon

InitUpgrade ==
    /\ op = "upgrade"
    /\ cfg \in UpgradeCfgs
    /\ mnt \in SUBSET ({MountPartOf(cfg), "persistent"} \cap SeqToSet(cfg.parts))
    /\ files = OldFiles
    /\ InitRunCommon

\* a squashed recovery only matters to a recovery upgrade; the host has
\* mounted what it booted from
InitOldUpgrade ==
    /\ op = "upgradeOld"
    /\ cfg \in { c \in OldUpgradeCfgs : c.squash => c.recoveryUpgrade }
    /\ mnt = IF cfg.booted = "recovery" THEN {"recovery"}
              ELSE {"state", "oem", "persistent"} \cap SeqToSet(cfg.parts)
    /\ files = OldFiles
    /\ InitRunCommon

InitReset ==
    /\ op \in {"reset", "resetSpec"}
    /\ cfg \in ResetCfgs
    /\ mnt \in IF cfg.booted = "recovery"
                THEN {{"recovery"}, {"recovery"} \cup (SeqToSet(cfg.host) \cap {"state", "oem"})}
                ELSE {SeqToSet(cfg.host) \ {"recovery"}}
    /\ files = OldFiles
    /\ InitRunCommon

Init == InitInstall \/ InitUpgrade \/ InitOldUpgrade \/ InitReset

Next == InstallNext \/ UpgradeNext \/ OldUpgradeNext \/ ResetNext
           \/ RunCleanup \/ RunPower \/ RunDeferred

Spec == Init /\ [][Next]_vars

-----------------------------------------------------------------------------
(* Error texts.  A text is the sequence of its characters.                 *)

\* errors.New(...) of ResetSetup
ResetSetupMessage ==
    <<"R", "e", "s", "e", "t", " ", "c", "a", "n", " ", "o", "n", "l", "y", " ", "b", "e",
        " ", "c", "a", "l", "l", "e", "d", " ", "f", "r", "o", "m", " ", "t", "h", "e", " ",
        "r", "e", "c", "o", "v", "e", "r", "y", " ", "s", "y", "s", "t", "e", "m">>

\* fmt.Errorf(...) of NewResetSpec
NewResetSpecMessage ==
    <<"r", "e", "s", "e", "t", " ", "c", "a", "n", " ", "o", "n", "l", "y", " ", "b", "e",
        " ", "c", "a", "l", "l", "e", "d", " ", "f", "r", "o", "m", " ", "t", "h", "e", " ",
        "r", "e", "c", "o", "v", "e", "r", "y", " ", "s", "y", "s", "t", "e", "m">>

\* err.Error() of a one-token error
ErrorText(tok) ==
    CASE tok = "ResetSetup: not recovery"   -> ResetSetupMessage
      [] tok = "NewResetSpec: not recovery" -> NewResetSpecMessage
      [] OTHER -> <<tok>>

\* strings.Contains, as ContainSubstring uses it
Contains(s, sub) ==
    \E i \in 0..(Len(s) - Len(sub)) : \A j \in 1..Len(sub) : s[i + j] = sub[j]

\* the text the tests of the reset precondition look for
ResetOnlyFromRecovery ==
    <<"r", "e", "s", "e", "t", " ", "c", "a", "n", " ", "o", "n", "l", "y", " ", "b", "e",
        " ", "c", "a", "l", "l", "e", "d", " ", "f", "r", "o", "m", " ", "t", "h", "e", " ",
        "r", "e", "c", "o", "v", "e", "r", "y", " ", "s", "y", "s", "t", "e", "m">>

-----------------------------------------------------------------------------
(* Upgrade ordering *)

UpgradeOps == {"upgrade", "upgradeOld"}

UpgradeHooks == {"before-upgrade", "after-upgrade-chroot", "after-upgrade"}

\* C1: in an upgrade run a step changes the live image file (renames it
\* away, or renames the transition file over it) only when the new content
\* has been deployed into the transition file and the before-upgrade,
\* after-upgrade-chroot and after-upgrade hooks have all returned success
LiveChangesOnlyAfterDeployAndHooks ==
    [][(op \in UpgradeOps /\ files'[Live] # files[Live])
          => (files["transition"] = "new" /\ UpgradeHooks \subseteq SeqToSet(hooks))]_vars

\* C2: at every point of an upgrade run the live image name holds either
\* the image it held before the upgrade or the new image
LiveImageAlwaysPresent ==
    op \in UpgradeOps => files[Live] \in {OldFiles[Live], "new"}

\* C3: when a run has returned, and no release call it issued failed, every
\* mount, loop device and temporary directory the run acquired is released,
\* and none is released more often than the run acquired it (a partition
\* can have been mounted by the host before the run)
AcquiredAllReleased ==
    (op \in RunOps /\ pc = "done" /\ ~relFailed)
        => \A r \in Resources :
              /\ acq[r] > 0 => ~Held(Env, r)
              /\ r \notin Partitions => rel[r] <= acq[r]

-----------------------------------------------------------------------------
(* The cleanup stack within a run *)

\* C8: within a run the stack is only pushed to while the steps execute,
\* and when the run has returned every pushed callback has been invoked
\* exactly once, on success and on failure alike
CleanupOncePerRun ==
    op \in RunOps =>
        /\ pc \notin {"power", "defer", "done"} => (log = <<>> /\ stack = pushed)
        /\ \A j \in SeqToSet(pushed) \cup SeqToSet(log) :
              /\ Count(j, log) <= Count(j, pushed)
              /\ pc = "done" => Count(j, log) = Count(j, pushed)
        /\ pc = "done" => stack = <<>>

\* a successful run, which drains explicitly before reboot and then again
\* on return, with three callbacks pushed
CleanupOncePerRunWitness ==
    /\ op \in RunOps /\ pc = "done" /\ err = Nil
    /\ Len(pushed) >= 3 /\ Len(log) = Len(pushed)

-----------------------------------------------------------------------------
(* Reset *)

ResetOps == {"reset", "resetSpec"}

\* C9: a reset requested while not booted from recovery fails with an error
\* containing "reset can only be called from the recovery system" and
\* mutates no partition
ResetNeedsRecovery ==
    (op \in ResetOps /\ pc = "done" /\ ~BootedFromRecovery(cfg))
        => /\ err # Nil
           /\ Contains(ErrorText(err[1]), ResetOnlyFromRecovery)
           /\ partlog = {} /\ acq = Zero /\ rel = Zero /\ files = OldFiles

\* C10: no step of a reset formats, mounts, unmounts or writes to the
\* Recovery partition, and the reset specification holds no Recovery
\* partition, whether or not Persistent/OEM are reset
ResetLeavesRecovery ==
    op \in ResetOps =>
        /\ \A w \in {"format", "mount", "unmount", "write"} : <<w, "recovery">> \notin partlog
        /\ "recovery" \notin SeqToSet(cfg.parts)
        /\ files["recovery"] = OldFiles["recovery"]

\* a completed reset of a host with a Recovery partition that formatted
\* Persistent and OEM too
ResetLeavesRecoveryWitness ==
    /\ op = "reset" /\ pc = "done" /\ err = Nil /\ cfg.resetPersistent
    /\ "recovery" \in SeqToSet(cfg.host)
    /\ {<<"format", "state">>, <<"format", "persistent">>, <<"format", "oem">>} \subseteq partlog

-----------------------------------------------------------------------------
(* partitioner.Disk: the cached view of a block device's partition table   *)

\* the run variables, which no call on a Disk or a Chroot touches
runvars == <<stack, pushed, log, popped, mnt, loop, imgLoop, tmp, files,
             acq, rel, relFailed, partlog, hooks, deployed>>

partitionTries == 10

\* sectorS, lastS, StartS and SizeS are Go uint values: arithmetic on them is
\* modulo a power of two.  The model keeps 30 of the 64 bits, which leaves
\* every value it works with below the modulus and a wrapped difference far
\* above every sector number.
UintMod == 1073741824

Uint(x) == x % UintMod

MiB == 1048576

MiBToSectors(size, sectorSize) == Uint(size * MiB) \div sectorSize

Last(s) == s[Len(s)]

Front(s) == SubSeq(s, 1, Len(s) - 1)

computeFreeSpaceToStart(d) ==
    IF Len(d.parts) > 0
       THEN Uint(d.lastS - Uint(Last(d.parts).StartS - 1))
       ELSE Uint(d.lastS - Uint((1 * 1024 * 1024) \div d.sectorS - 1))

\* computeFreeSpace: from the end of the last partition, or from the 1 MiB
\* offset of the first one, to the last sector
computeFreeSpace(d) ==
    IF Len(d.parts) > 0
       THEN Uint(d.lastS - Uint(Uint(Last(d.parts).StartS + Last(d.parts).SizeS) - 1))
       ELSE Uint(d.lastS - Uint((1 * 1024 * 1024) \div d.sectorS - 1))

computeFreeSpaceWithoutLast(d) ==
    IF Len(d.parts) > 1
       THEN LET part == d.parts[Len(d.parts) - 1] IN
            Uint(d.lastS - Uint(Uint(part.StartS + part.SizeS) - 1))
       ELSE Uint(d.lastS - Uint((1024 * 1024) \div d.sectorS - 1))

\* one external command as the runner saw it; ops are the sub-commands of a
\* parted call, in the order they were given
Cmd(c, ok) == [c |-> c, ops |-> <<>>, ok |-> ok]

Parted(ops, ok) == [c |-> "parted", ops |-> ops, ok |-> ok]

MkLabel(label) == [o |-> "mklabel", num |-> 0, start |-> 0, size |-> 0, label |-> label]

\* CreatePartition: mkpart from StartS to StartS + SizeS - 1, or to 100% of
\* the disk when SizeS is 0 (kept here as size 0)
CreatePartition(p) ==
    [o |-> "mkpart", num |-> p.Number, start |-> p.StartS, size |-> p.SizeS, label |-> ""]

DeletePartition(num) == [o |-> "rm", num |-> num, start |-> 0, size |-> 0, label |-> ""]

SetPartitionFlag(num) == [o |-> "set", num |-> num, start |-> 0, size |-> 0, label |-> ""]

GPT == <<"g", "p", "t">>

MSDOS == <<"m", "s", "d", "o", "s">>

\* table types parted knows, of those the callers here can name
PartedLabels == {GPT, MSDOS, <<"b", "s", "d">>}

Numbers(parts) == { parts[i].Number : i \in 1..Len(parts) }

Overlaps(parts, start, size) ==
    \E i \in 1..Len(parts) :
        /\ start < parts[i].StartS + parts[i].SizeS
        /\ parts[i].StartS < start + size

\* parted on the device: whether it accepts one sub-command
OpValid(dev, x) ==
    CASE x.o = "mklabel" -> x.label \in PartedLabels
      [] x.o = "rm"      -> x.num \in Numbers(dev.parts)
      [] x.o = "set"     -> x.num \in Numbers(dev.parts)
      [] x.o = "mkpart"  ->
            LET size == IF x.size = 0 THEN dev.lastS - x.start ELSE x.size IN
            /\ x.start >= 1 /\ size >= 1
            /\ x.start + size <= dev.lastS
            /\ ~Overlaps(dev.parts, x.start, size)

\* parted on the device: the table after one accepted sub-command; a new
\* partition takes the lowest free number and the table stays in disk order
OpApply(dev, x) ==
    CASE x.o = "mklabel" -> [dev EXCEPT !.label = x.label, !.parts = <<>>]
      [] x.o = "rm"      ->
            [dev EXCEPT !.parts = SelectSeq(@, LAMBDA p : p.Number # x.num)]
      [] x.o = "set"     -> dev
      [] x.o = "mkpart"  ->
            LET size == IF x.size = 0 THEN dev.lastS - x.start ELSE x.size
                num  == CHOOSE n \in 1..(Len(dev.parts) + 1) :
                            /\ n \notin Numbers(dev.parts)
                            /\ \A m \in 1..(n - 1) : m \in Numbers(dev.parts)
                new  == [Number |-> num, StartS |-> x.start, SizeS |-> size]
            IN [dev EXCEPT !.parts =
                    SelectSeq(@, LAMBDA p : p.StartS < x.start) \o <<new>>
                    \o SelectSeq(@, LAMBDA p : p.StartS > x.start)]

\* parted runs its sub-commands in order and commits each one as it goes;
\* it stops at the first one it refuses
RECURSIVE ApplyOps(_, _, _)
ApplyOps(dev, ops, i) ==
    IF i > Len(ops) THEN [device |-> dev, ok |-> TRUE]
    ELSE IF ~OpValid(dev, ops[i]) THEN [device |-> dev, ok |-> FALSE]
    ELSE ApplyOps(OpApply(dev, ops[i]), ops, i + 1)

\* how a parted call ends: it could not run at all, it ran (and refused what
\* the table does not allow), or it wrote everything and still exited with
\* an error (the kernel could not be told of the new table)
WriteOutcomes == {"ok", "fail", "late"}

\* PartedCall.WriteChanges
WriteChanges(dev, ops, w) ==
    IF w = "fail" THEN [device |-> dev, ok |-> FALSE]
    ELSE LET a == ApplyOps(dev, ops, 1) IN
         [device |-> a.device, ok |-> a.ok /\ w = "ok"]

ReloadOutcomes == {"ok", "fail"}

\* the variant that assigns each field as soon as it is parsed: a failure
\* after the sector size and the last sector leaves two new and two old fields
ReloadFieldByField(d, dev, r) ==
    IF r = "ok" THEN [disk |-> dev, err |-> Nil]
                ELSE [disk |-> [d EXCEPT !.sectorS = dev.sectorS, !.lastS = dev.lastS],
                      err |-> Errorf("print")]

\* Reload: print and parse; the four fields are assigned after all of them
\* were parsed
Reload(d, dev, r) ==
    IF r = "ok" THEN [disk |-> dev, err |-> Nil]
                ELSE [disk |-> d, err |-> Errorf("print")]

\* the check every method starts with: load the table if none is loaded
Loaded(d, dev, r) ==
    IF d.sectorS = 0
       THEN Reload(d, dev, r) @@ [cmds |-> <<Cmd("print", r = "ok")>>]
       ELSE [disk |-> d, err |-> Nil, cmds |-> <<>>]

\* what a call on a Disk leaves behind
Result(d, dev, c, e, v) == [disk |-> d, device |-> dev, cmds |-> c, err |-> e, ret |-> v]

GetFreeSpace(d, dev, r) ==
    LET l == Loaded(d, dev, r) IN
    IF l.err # Nil THEN Result(l.disk, dev, l.cmds, l.err, 0)
    ELSE Result(l.disk, dev, l.cmds, Nil, computeFreeSpace(l.disk))

\* regexp.MatchString("msdos|gpt", label): the label contains one of the two
LabelMatch(label) == Contains(label, MSDOS) \/ Contains(label, GPT)

NewPartitionTable(d, dev, label, w, r) ==
    IF ~LabelMatch(label)
       THEN Result(d, dev, <<>>, Errorf("Invalid partition table type"), 0)
    ELSE LET ops == <<MkLabel(label)>>
             wr  == WriteChanges(dev, ops, w)
             c   == <<Parted(ops, wr.ok)>>
             rl  == Reload(d, wr.device, r)
         IN
         IF ~wr.ok THEN Result(d, wr.device, c, Errorf("parted"), 0)
         ELSE Result(rl.disk, wr.device, c \o <<Cmd("print", r = "ok")>>, rl.err, 0)

NewPartitionAtLastSector(dk, sectors) ==
    IF Len(dk.parts) > 0
       THEN [Number |-> Last(dk.parts).Number + 1,
             StartS |-> Uint(Uint(Last(dk.parts).StartS + Last(dk.parts).SizeS) - 1),
             SizeS  |-> sectors]
       ELSE [Number |-> 1, StartS |-> (1024 * 1024) \div dk.sectorS, SizeS |-> sectors]

\* the partition AddPartition asks parted for: the number after the last
\* one, from the sector after the last one or from the 1 MiB offset
NewPartition(dk, sectors) ==
    IF Len(dk.parts) > 0
       THEN [Number |-> Last(dk.parts).Number + 1,
             StartS |-> Uint(Last(dk.parts).StartS + Last(dk.parts).SizeS),
             SizeS  |-> sectors]
       ELSE [Number |-> 1, StartS |-> (1024 * 1024) \div dk.sectorS, SizeS |-> sectors]

AddPartitionNoSpaceCheck(d, dev, size, flag, r1, w, r2) ==
    LET l  == Loaded(d, dev, r1)
        dk == l.disk
        sectors  == MiBToSectors(size, dk.sectorS)
        part     == NewPartition(dk, sectors)
        partNum  == part.Number
        ops      == <<CreatePartition(part)>>
                    \o (IF flag THEN <<SetPartitionFlag(partNum)>> ELSE <<>>)
        wr       == WriteChanges(dev, ops, w)
        c        == l.cmds \o <<Parted(ops, wr.ok)>>
        rl       == Reload(dk, wr.device, r2)
    IN
    IF l.err # Nil THEN Result(dk, dev, l.cmds, l.err, 0)
    ELSE IF ~wr.ok THEN Result(dk, wr.device, c, Errorf("parted"), 0)
    ELSE Result(rl.disk, wr.device, c \o <<Cmd("print", r2 = "ok")>>, rl.err,
                IF rl.err = Nil THEN partNum ELSE 0)

AddPartition(d, dev, size, flag, r1, w, r2) ==
    LET l  == Loaded(d, dev, r1)
        dk == l.disk
        sectors  == MiBToSectors(size, dk.sectorS)
        freeS    == computeFreeSpace(dk)
        part     == NewPartition(dk, sectors)
        partNum  == part.Number
        ops      == <<CreatePartition(part)>>
                    \o (IF flag THEN <<SetPartitionFlag(partNum)>> ELSE <<>>)
        wr       == WriteChanges(dev, ops, w)
        c        == l.cmds \o <<Parted(ops, wr.ok)>>
        rl       == Reload(dk, wr.device, r2)
    IN
    IF l.err # Nil THEN Result(dk, dev, l.cmds, l.err, 0)
    ELSE IF sectors > freeS
       THEN Result(dk, dev, l.cmds, Errorf("not enough free space in disk"), 0)
    ELSE IF ~wr.ok THEN Result(dk, wr.device, c, Errorf("parted"), 0)
    ELSE Result(rl.disk, wr.device, c \o <<Cmd("print", r2 = "ok")>>, rl.err,
                IF rl.err = Nil THEN partNum ELSE 0)

ExpandLastPartitionNoShrinkCheck(d, dev, size, r1, w, r2) ==
    LET l  == Loaded(d, dev, r1)
        dk == l.disk
        old     == Last(dk.parts)
        sectors == IF size > 0 THEN MiBToSectors(size, dk.sectorS) ELSE size
        part    == [old EXCEPT !.SizeS = sectors]
        ops     == <<DeletePartition(part.Number), CreatePartition(part)>>
        wr      == WriteChanges(dev, ops, w)
        c       == l.cmds \o <<Parted(ops, wr.ok)>>
        rl      == Reload(dk, wr.device, r2)
    IN
    IF l.err # Nil THEN Result(dk, dev, l.cmds, l.err, 0)
    ELSE IF Len(dk.parts) = 0
       THEN Result(dk, dev, l.cmds, Errorf("There is no partition to expand"), 0)
    ELSE IF size > 0 /\ sectors > computeFreeSpaceWithoutLast(dk)
       THEN Result(dk, dev, l.cmds, Errorf("not enough free space for to expand last partition"), 0)
    ELSE IF ~wr.ok THEN Result(dk, wr.device, c, Errorf("parted"), 0)
    ELSE Result(rl.disk, wr.device, c \o <<Cmd("print", r2 = "ok")>>, rl.err,
                IF rl.err = Nil THEN part.Number ELSE 0)

\* ExpandLastPartition up to the Reload that follows the write; ret is the
\* number of the partition whose device node is looked up next
ExpandLastPartition(d, dev, size, r1, w, r2) ==
    LET l  == Loaded(d, dev, r1)
        dk == l.disk
        old     == Last(dk.parts)
        sectors == IF size > 0 THEN MiBToSectors(size, dk.sectorS) ELSE size
        part    == [old EXCEPT !.SizeS = sectors]
        ops     == <<DeletePartition(part.Number), CreatePartition(part)>>
        wr      == WriteChanges(dev, ops, w)
        c       == l.cmds \o <<Parted(ops, wr.ok)>>
        rl      == Reload(dk, wr.device, r2)
    IN
    IF l.err # Nil THEN Result(dk, dev, l.cmds, l.err, 0)
    ELSE IF Len(dk.parts) = 0
       THEN Result(dk, dev, l.cmds, Errorf("There is no partition to expand"), 0)
    ELSE IF size > 0 /\ sectors < old.SizeS
       THEN Result(dk, dev, l.cmds,
                   Errorf("Layout plugin can only expand a partition, not shrink it"), 0)
    ELSE IF size > 0 /\ sectors > computeFreeSpaceWithoutLast(dk)
       THEN Result(dk, dev, l.cmds, Errorf("not enough free space for to expand last partition"), 0)
    ELSE IF ~wr.ok THEN Result(dk, wr.device, c, Errorf("parted"), 0)
    ELSE Result(rl.disk, wr.device, c \o <<Cmd("print", r2 = "ok")>>, rl.err,
                IF rl.err = Nil THEN part.Number ELSE 0)

RECURSIVE Digits(_)
Digits(n) == IF n < 10 THEN 1 ELSE 1 + Digits(n \div 10)

RECURSIVE Pow10(_)
Pow10(k) == IF k = 0 THEN 1 ELSE 10 * Pow10(k - 1)

\* the regular expression "(?m)^(/.*%d) part$" on the lsblk line of partition
\* m: the name ends with the decimal digits of partNum
NodeMatches(partNum, m) == m % Pow10(Digits(partNum)) = partNum

\* lsblk fails, lists the node of every partition, or runs before the kernel
\* has made the node of the partition asked for
LsblkOutcomes(dev, partNum) ==
    {"error", "absent"} \cup (IF partNum \in Numbers(dev.parts) THEN {"listed"} ELSE {})

\* the partitions whose node the output of lsblk lists
Listing(dev, partNum, o) ==
    CASE o = "listed" -> Numbers(dev.parts)
      [] o = "absent" -> Numbers(dev.parts) \ {partNum}
      [] o = "error"  -> {}

\* the listed partitions whose lsblk line the expression matches
Matching(nodes, partNum) == { m \in nodes : NodeMatches(partNum, m) }

\* FindStringSubmatch returns the first match: lsblk lists in number order
FirstMatch(nodes, partNum) ==
    CHOOSE m \in Matching(nodes, partNum) : \A k \in Matching(nodes, partNum) : m <= k

FsTypes == {"ext4", "xfs", "other"}

\* where expandFilesystem fails: nowhere, or at the named command
FsFailures(fs) ==
    CASE fs = "ext4"  -> {"none", "e2fsck", "resize2fs"}
      [] fs = "xfs"   -> {"none", "tempdir", "mount", "xfs_growfs", "growUmount", "umount"}
      [] fs = "other" -> {"none"}

\* expandFilesystem: the commands it runs and the error it returns
expandFilesystem(fs, fail) ==
    LET blkid == <<Cmd("blkid", TRUE)>>
        rm    == <<Cmd("RemoveAll", TRUE)>>
    IN
    CASE fs = "other" ->
            [cmds |-> blkid, err |-> Errorf("could not find filesystem")]
      [] fs = "ext4" /\ fail = "e2fsck" ->
            [cmds |-> blkid \o <<Cmd("e2fsck", FALSE)>>, err |-> Errorf("e2fsck")]
      [] fs = "ext4" /\ fail = "resize2fs" ->
            [cmds |-> blkid \o <<Cmd("e2fsck", TRUE), Cmd("resize2fs", FALSE)>>,
             err |-> Errorf("resize2fs")]
      [] fs = "ext4" /\ fail = "none" ->
            [cmds |-> blkid \o <<Cmd("e2fsck", TRUE), Cmd("resize2fs", TRUE)>>, err |-> Nil]
      [] fs = "xfs" /\ fail = "tempdir" ->
            [cmds |-> blkid \o <<Cmd("TempDir", FALSE)>> \o rm, err |-> Errorf("TempDir")]
      [] fs = "xfs" /\ fail = "mount" ->
            [cmds |-> blkid \o <<Cmd("TempDir", TRUE), Cmd("mount", FALSE)>> \o rm,
             err |-> Errorf("mount")]
      [] fs = "xfs" /\ fail = "xfs_growfs" ->
            [cmds |-> blkid \o <<Cmd("TempDir", TRUE), Cmd("mount", TRUE),
                                 Cmd("xfs_growfs", FALSE), Cmd("umount", TRUE)>> \o rm,
             err |-> Errorf("xfs_growfs")]
      [] fs = "xfs" /\ fail = "growUmount" ->
            [cmds |-> blkid \o <<Cmd("TempDir", TRUE), Cmd("mount", TRUE),
                                 Cmd("xfs_growfs", FALSE), Cmd("umount", FALSE)>> \o rm,
             err |-> Errorf("umount")]
      [] fs = "xfs" /\ fail = "umount" ->
            [cmds |-> blkid \o <<Cmd("TempDir", TRUE), Cmd("mount", TRUE),
                                 Cmd("xfs_growfs", TRUE), Cmd("umount", FALSE)>> \o rm,
             err |-> Errorf("umount")]
      [] fs = "xfs" /\ fail = "none" ->
            [cmds |-> blkid \o <<Cmd("TempDir", TRUE), Cmd("mount", TRUE),
                                 Cmd("xfs_growfs", TRUE), Cmd("umount", TRUE)>> \o rm,
             err |-> Nil]

-----------------------------------------------------------------------------
(* Calls on one Disk of one device, in any order                           *)

DiskMiB == 3

MaxSizeMiB == 1

TinyLastS == 1000

\* a device of DiskMiB MiB, empty or with one 1 MiB partition at 1 MiB
SmallDisks ==
    { [sectorS |-> s, lastS |-> DiskMiB * (MiB \div s), label |-> GPT, parts |-> p] :
        s \in {512}, p \in {<<>>, <<[Number |-> 1, StartS |-> 2048, SizeS |-> 2048]>>} }
    \cup
    { [sectorS |-> s, lastS |-> DiskMiB * (MiB \div s), label |-> GPT, parts |-> p] :
        s \in {4096}, p \in {<<>>, <<[Number |-> 1, StartS |-> 256, SizeS |-> 256]>>} }

\* a device smaller than the 1 MiB offset of a first partition
TinyDisk == [sectorS |-> 512, lastS |-> TinyLastS, label |-> MSDOS, parts |-> <<>>]

Devices == SmallDisks \cup {TinyDisk}

\* sizes in MiB the callers ask for: 0 for all that is left, small ones, and
\* one as large as the device
Sizes == 0..MaxSizeMiB \cup {DiskMiB}

\* table types the callers ask for: a valid one, one the code refuses and
\* one that only contains a valid one
Labels == {GPT, <<"b", "s", "d">>, <<"x", "g", "p", "t">>}

DiskCall(name, size, label, flag, num) ==
    [name |-> name, size |-> size, label |-> label, flag |-> flag, num |-> num]

InitNoRun ==
    /\ stack = <<>> /\ pushed = <<>> /\ log = <<>> /\ popped = <<>>
    /\ mnt = {} /\ loop = {} /\ imgLoop = {} /\ tmp = {} /\ files = NoFiles
    /\ acq = Zero /\ rel = Zero /\ relFailed = FALSE /\ partlog = {}
    /\ hooks = <<>> /\ deployed = FALSE

InitDisk ==
    /\ op = "disk" /\ pc = "idle" /\ err = Nil
    /\ cfg = DiskCall("", 0, <<>>, FALSE, 0)
    /\ device \in Devices /\ disk = NewDisk
    /\ cmds = <<>> /\ ret = 0 /\ find = NoFind /\ jail = NewChroot
    /\ InitNoRun

\* a call returns: what it left on the device and in the Disk, what it ran
DiskReturn(call, res) ==
    /\ cfg' = call /\ pc' = "done"
    /\ device' = res.device /\ disk' = res.disk
    /\ cmds' = res.cmds /\ err' = res.err /\ ret' = res.ret
    /\ find' = NoFind
    /\ UNCHANGED <<op, runvars, jail>>

\* the first Reload of a call happens only when nothing is loaded
LoadOutcomes(d) == IF d.sectorS = 0 THEN ReloadOutcomes ELSE {"ok"}

NoCall == DiskCall("", 0, <<>>, FALSE, 0)

\* the caller has looked at the result and goes on to its next call
DiskNextCall ==
    /\ op = "disk" /\ pc = "done"
    /\ pc' = "idle" /\ cfg' = NoCall
    /\ err' = Nil /\ ret' = 0 /\ cmds' = <<>> /\ find' = NoFind
    /\ UNCHANGED <<op, runvars, jail, device, disk>>

DiskNew ==
    /\ op = "disk" /\ pc = "idle"
    /\ DiskReturn(DiskCall("NewDisk", 0, <<>>, FALSE, 0), Result(NewDisk, device, <<>>, Nil, 0))

DiskGetFreeSpace ==
    /\ op = "disk" /\ pc = "idle"
    /\ \E r \in LoadOutcomes(disk) :
          DiskReturn(DiskCall("GetFreeSpace", 0, <<>>, FALSE, 0), GetFreeSpace(disk, device, r))

DiskNewPartitionTable ==
    /\ op = "disk" /\ pc = "idle"
    /\ \E label \in Labels, w \in WriteOutcomes, r \in ReloadOutcomes :
          DiskReturn(DiskCall("NewPartitionTable", 0, label, FALSE, 0),
                     NewPartitionTable(disk, device, label, w, r))

DiskAddPartition ==
    /\ op = "disk" /\ pc = "idle"
    /\ \E size \in Sizes, flag \in BoolSet,
          r1 \in LoadOutcomes(disk), w \in WriteOutcomes, r2 \in ReloadOutcomes :
          DiskReturn(DiskCall("AddPartition", size, <<>>, flag, 0),
                     AddPartition(disk, device, size, flag, r1, w, r2))

\* ExpandLastPartition: after the write and the Reload it looks the device
\* node up and grows the filesystem
DiskExpandLastPartition ==
    /\ op = "disk" /\ pc = "idle"
    /\ \E size \in Sizes, r1 \in LoadOutcomes(disk), w \in WriteOutcomes, r2 \in ReloadOutcomes :
          LET res == ExpandLastPartition(disk, device, size, r1, w, r2) IN
          /\ cfg' = DiskCall("ExpandLastPartition", size, <<>>, FALSE, res.ret)
          /\ pc' = IF res.err = Nil THEN "find" ELSE "done"
          /\ device' = res.device /\ disk' = res.disk
          /\ cmds' = res.cmds /\ err' = res.err /\ ret' = 0
          /\ find' = NoFind
    /\ UNCHANGED <<op, runvars, jail>>

DiskFindPartitionDevice ==
    /\ op = "disk" /\ pc = "idle"
    /\ \E partNum \in 1..(Len(device.parts) + 1) :
          cfg' = DiskCall("FindPartitionDevice", 0, <<>>, FALSE, partNum)
    /\ pc' = "find" /\ err' = Nil /\ ret' = 0 /\ cmds' = <<>> /\ find' = NoFind
    /\ UNCHANGED <<op, runvars, jail, device, disk>>

\* one turn of the loop of FindPartitionDevice: udevadm settle, lsblk, then
\* return or sleep; the loop ends when tries exceeds partitionTries
FindTry ==
    /\ op = "disk" /\ pc = "find"
    /\ find.tries <= partitionTries
    /\ \E o \in LsblkOutcomes(device, cfg.num) :
          LET ran == [find EXCEPT !.lsblk = @ + 1] IN
          IF o = "error" /\ find.tries = partitionTries - 1
             THEN /\ find' = ran /\ pc' = "done" /\ ret' = 0
                  /\ err' = Errorf("could not list device partition nodes")
          ELSE IF Matching(Listing(device, cfg.num, o), cfg.num) # {}
             THEN /\ find' = ran /\ err' = Nil
                  /\ ret' = FirstMatch(Listing(device, cfg.num, o), cfg.num)
                  /\ pc' = IF cfg.name = "ExpandLastPartition" THEN "expandfs" ELSE "done"
          ELSE /\ find' = [ran EXCEPT !.tries = @ + 1, !.sleeps = @ + 1]
               /\ ret' = 0
               /\ IF find.tries + 1 <= partitionTries
                     THEN pc' = "find" /\ err' = Nil
                     ELSE /\ pc' = "done"
                          /\ err' = Errorf("could not find partition device path")
    /\ UNCHANGED <<op, cfg, runvars, jail, device, disk, cmds>>

DiskExpandFilesystem ==
    /\ op = "disk" /\ pc = "expandfs"
    /\ \E fs \in FsTypes : \E fail \in FsFailures(fs) :
          LET r == expandFilesystem(fs, fail) IN
          /\ cmds' = cmds \o r.cmds
          /\ err' = r.err
    /\ pc' = "done" /\ ret' = 0
    /\ UNCHANGED <<op, cfg, runvars, jail, device, disk, find>>

NextDisk ==
    \/ DiskNew \/ DiskGetFreeSpace \/ DiskNewPartitionTable
    \/ DiskAddPartition \/ DiskExpandLastPartition \/ DiskFindPartitionDevice
    \/ FindTry \/ DiskExpandFilesystem \/ DiskNextCall

SpecDisk == InitDisk /\ [][NextDisk]_vars

-----------------------------------------------------------------------------
(* Properties of the Disk                                                  *)

\* the table a call works with: the loaded one, or the device's when the
\* call has to load it first
TableSeen == IF disk.sectorS = 0 THEN device ELSE disk

\* the call wrote to the partition table, or tried to
Wrote(c) == \E i \in 1..Len(c) : c[i].c = "parted"

\* C11: AddPartition with a size that, in sectors, exceeds the free space of
\* the disk returns an error, runs no parted command that writes, and leaves
\* the table on the device as it was.
AddPartitionRejectsOversize ==
    [][ ( /\ op = "disk" /\ pc = "idle" /\ cfg'.name = "AddPartition"
          /\ MiBToSectors(cfg'.size, TableSeen.sectorS) > computeFreeSpace(TableSeen) )
        => ( err' # Nil /\ ~Wrote(cmds') /\ device' = device ) ]_vars

AddPartitionRejectsOversizeWitness ==
    /\ op = "disk" /\ pc = "done" /\ cfg.name = "AddPartition"
    /\ err = Errorf("not enough free space in disk")
    /\ Len(disk.parts) > 0 /\ disk = device
    /\ MiBToSectors(cfg.size, disk.sectorS) > computeFreeSpace(disk)
    /\ ~Wrote(cmds)

\* the calls that change the partition table
Structural == {"NewPartitionTable", "AddPartition", "ExpandLastPartition"}

\* C12: when a call of NewPartitionTable, AddPartition or ExpandLastPartition
\* has changed the table on the device, the Disk holds the sector size, last
\* sector, label and partition list of the device as the call left it, so
\* that the next computation works on data read after the write.
CacheRereadAfterChange ==
    [][ ( /\ op = "disk" /\ pc = "idle" /\ cfg'.name \in Structural
          /\ device' # device )
        => disk' = device' ]_vars

\* v added to the last sector in use (that of the last partition, or the one
\* before the 1 MiB offset) gives the last sector of the disk, in the
\* arithmetic of the sector counts
FreeSpaceEquation(d, v) ==
    IF Len(d.parts) > 0
       THEN (v + (Last(d.parts).StartS + Last(d.parts).SizeS - 1)) % UintMod = d.lastS
       ELSE (v + (MiB \div d.sectorS - 1)) % UintMod = d.lastS

\* C13: the free space GetFreeSpace returns is last_sector - (last.start +
\* last.size - 1) when the loaded table has a partition and last_sector -
\* (sectors per MiB - 1) when it has none.
FreeSpaceFormula ==
    ( /\ op = "disk" /\ pc = "done" /\ cfg.name = "GetFreeSpace" /\ err = Nil )
    => FreeSpaceEquation(disk, ret)

\* on a 512-byte-sector disk of DiskMiB MiB whose last partition ends at
\* sector 4095 the free space is all sectors but the first 4095
FreeSpaceFormulaWitness ==
    /\ op = "disk" /\ pc = "done" /\ cfg.name = "GetFreeSpace" /\ err = Nil
    /\ disk.sectorS = 512 /\ Len(disk.parts) = 1
    /\ Last(disk.parts).StartS = 2048 /\ Last(disk.parts).SizeS = 2048
    /\ ret = disk.lastS - 4095

\* the mkpart sub-commands among the commands of a call
MkParts(c) ==
    { x \in UNION { SeqToSet(c[i].ops) : i \in 1..Len(c) } : x.o = "mkpart" }

\* the sector after the last partition of a table, or the 1 MiB offset
ExpectedStart(d) ==
    IF Len(d.parts) > 0 THEN Last(d.parts).StartS + Last(d.parts).SizeS
                        ELSE MiB \div d.sectorS

\* C14: the partition AddPartition asks for starts at the sector after the
\* end of the last partition of the table (last.start + last.size), or at
\* 1 MiB divided by the sector size when the table has no partitions.
AddPartitionStart ==
    [][ ( op = "disk" /\ pc = "idle" /\ cfg'.name = "AddPartition" /\ Wrote(cmds') )
        => ( /\ MkParts(cmds') # {}
             /\ \A x \in MkParts(cmds') : x.start = ExpectedStart(TableSeen)
             /\ (err' = Nil => \E i \in 1..Len(device'.parts) :
                                  device'.parts[i].StartS = ExpectedStart(TableSeen)) ) ]_vars

AddPartitionStartWitness ==
    /\ op = "disk" /\ pc = "done" /\ cfg.name = "AddPartition" /\ err = Nil
    /\ Len(device.parts) = 2
    /\ device.parts[2].StartS = device.parts[1].StartS + device.parts[1].SizeS
    /\ \E x \in MkParts(cmds) : x.start = device.parts[2].StartS

\* the call could not read the table of the device
PrintFailed(c) == \E i \in 1..Len(c) : c[i].c = "print" /\ ~c[i].ok

\* C15: ExpandLastPartition with a size other than 0 that is smaller than the
\* last partition is refused with the error that says a partition cannot be
\* shrunk, and issues no change of the partition table (when the table can
\* not be read at all the call fails on that and changes nothing either).
ExpandRefusesShrink ==
    [][ ( /\ op = "disk" /\ pc = "idle" /\ cfg'.name = "ExpandLastPartition"
          /\ cfg'.size > 0 /\ Len(TableSeen.parts) > 0
          /\ MiBToSectors(cfg'.size, TableSeen.sectorS) < Last(TableSeen.parts).SizeS )
        => ( /\ \/ err' = Errorf("Layout plugin can only expand a partition, not shrink it")
                \/ PrintFailed(cmds') /\ err' # Nil
             /\ ~Wrote(cmds') /\ device' = device /\ pc' = "done" ) ]_vars

ExpandRefusesShrinkWitness ==
    /\ op = "disk" /\ pc = "done" /\ cfg.name = "ExpandLastPartition"
    /\ cfg.size > 0 /\ Len(disk.parts) > 0
    /\ MiBToSectors(cfg.size, disk.sectorS) < Last(disk.parts).SizeS
    /\ err = Errorf("Layout plugin can only expand a partition, not shrink it")
    /\ ~Wrote(cmds)

\* the places in a command list where command c failed
FailedAt(c, name) == { i \in 1..Len(c) : c[i].c = name /\ ~c[i].ok }

\* C16: when growing the xfs filesystem of the expanded partition fails at the
\* temporary mount or at the grow command, an unmount of the temporary mount
\* point is attempted after the failure and before the error is returned (a
\* failing unmount is itself that attempt).
XfsFailureUnmounts ==
    ( op = "disk" /\ pc = "done" /\ cfg.name = "ExpandLastPartition" )
    => \A i \in FailedAt(cmds, "mount") \cup FailedAt(cmds, "xfs_growfs") :
          \E j \in (i + 1)..Len(cmds) : cmds[j].c = "umount"

\* C17: FindPartitionDevice runs its lookup (lsblk) at most 10 times, sleeps
\* between the attempts, and returns an error when no attempt has listed the
\* partition.
FindAtMostTenAttempts ==
    op = "disk" =>
        /\ find.lsblk <= partitionTries
        /\ find.sleeps <= find.lsblk
        /\ ( pc = "done" /\ cfg.name = "FindPartitionDevice" /\ ret = 0 ) => err # Nil

-----------------------------------------------------------------------------
(* utils.Chroot: bind mounts under the target and the root of the process  *)

MaxBinds == 8

defaultMounts == <<"/dev", "/dev/pts", "/proc", "/sys">>

\* one call of the mounter or of the syscall interface, as it was made
Sys(c, arg, ok) == [c |-> c, ops |-> <<arg>>, ok |-> ok]

\* Prepare: bind-mount the default mounts in order, stop at the first one
\* that fails (failAt, 0 for none); the Chroot keeps no record of it
RECURSIVE PrepareFrom(_, _, _)
PrepareFrom(j, i, failAt) ==
    IF i > Len(defaultMounts) THEN [jail |-> j, cmds |-> <<>>, err |-> Nil]
    ELSE IF i = failAt
       THEN [jail |-> j, cmds |-> <<Sys("mount", defaultMounts[i], FALSE)>>,
             err |-> Errorf("mount")]
    ELSE LET r == PrepareFrom([j EXCEPT !.binds = Append(@, defaultMounts[i])], i + 1, failAt)
         IN [r EXCEPT !.cmds = <<Sys("mount", defaultMounts[i], TRUE)>> \o @]

Prepare(j, failAt) ==
    LET r == PrepareFrom(j, 1, failAt) IN
    [r EXCEPT !.jail.prepared = (r.err = Nil) \/ j.prepared]

\* the mount table without the topmost mount on a mount point
RECURSIVE RemoveLast(_, _)
RemoveLast(s, x) ==
    IF s = <<>> THEN <<>>
    ELSE IF Last(s) = x THEN Front(s)
    ELSE Append(RemoveLast(Front(s), x), Last(s))

\* Close: unmount the default mounts in the same order, stop at the first
\* failure; unmounting what is not mounted fails
RECURSIVE CloseFrom(_, _, _)
CloseFrom(j, i, failAt) ==
    IF i > Len(defaultMounts) THEN [jail |-> j, cmds |-> <<>>, err |-> Nil]
    ELSE IF i = failAt \/ defaultMounts[i] \notin SeqToSet(j.binds)
       THEN [jail |-> j, cmds |-> <<Sys("unmount", defaultMounts[i], FALSE)>>,
             err |-> Errorf("unmount")]
    ELSE LET r == CloseFrom([j EXCEPT !.binds = RemoveLast(@, defaultMounts[i])], i + 1, failAt)
         IN [r EXCEPT !.cmds = <<Sys("unmount", defaultMounts[i], TRUE)>> \o @]

CloseFromSecond(j, failAt) == CloseFrom([j EXCEPT !.prepared = FALSE], 2, failAt)

Close(j, failAt) == CloseFrom([j EXCEPT !.prepared = FALSE], 1, failAt)

\* where Run fails: nowhere, or at the named step
RunFailures == {"none", "open", "prepare", "chroot", "command", "chdir", "chrootBack"}

\* Run: open the old root, Prepare, chroot into the target, run the command,
\* change back to the old root and chroot to it; every error returns at once
Run(j, fail, failAt) ==
    LET p   == Prepare(j, failAt)
        in  == [p.jail EXCEPT !.root = "target"]
        out == [in EXCEPT !.root = "real"]
        c1  == p.cmds \o <<Sys("chroot", "path", fail # "chroot")>>
        c2  == c1 \o <<Sys("run", "command", fail # "command")>>
        c3  == c2 \o <<Sys("chdir", "oldRoot", fail # "chdir")>>
        c4  == c3 \o <<Sys("chroot", ".", fail # "chrootBack")>>
    IN
    CASE fail = "open"       -> [jail |-> j, cmds |-> <<>>, err |-> Errorf("open")]
      [] fail = "prepare"    -> p
      [] fail = "chroot"     -> [jail |-> p.jail, cmds |-> c1, err |-> Errorf("chroot")]
      [] fail = "command"    -> [jail |-> in, cmds |-> c2, err |-> Errorf("command")]
      [] fail = "chdir"      -> [jail |-> in, cmds |-> c3, err |-> Errorf("chdir")]
      [] fail = "chrootBack" -> [jail |-> in, cmds |-> c4, err |-> Errorf("chroot")]
      [] fail = "none"       -> [jail |-> out, cmds |-> c4, err |-> Nil]

InitChroot ==
    /\ op = "chroot" /\ pc = "idle" /\ err = Nil
    /\ cfg = [name |-> ""]
    /\ jail = NewChroot
    /\ device = NewDisk /\ disk = NewDisk /\ cmds = <<>> /\ ret = 0 /\ find = NoFind
    /\ InitNoRun

ChrootReturn(name, r) ==
    /\ cfg' = [name |-> name]
    /\ jail' = r.jail /\ cmds' = r.cmds /\ err' = r.err
    /\ UNCHANGED <<op, pc, runvars, device, disk, ret, find>>

ChrootPrepare ==
    /\ op = "chroot" /\ jail.root = "real"
    /\ Len(jail.binds) + Len(defaultMounts) <= MaxBinds
    /\ \E failAt \in 0..Len(defaultMounts) :
          ChrootReturn("Prepare", Prepare(jail, failAt))

ChrootClose ==
    /\ op = "chroot" /\ jail.root = "real"
    /\ \E failAt \in 0..Len(defaultMounts) :
          ChrootReturn("Close", Close(jail, failAt))

\* Run from a process that is in its real root
ChrootRun ==
    /\ op = "chroot" /\ jail.root = "real"
    /\ Len(jail.binds) + Len(defaultMounts) <= MaxBinds
    /\ \E fail \in RunFailures :
       \E failAt \in (IF fail = "prepare" THEN 1..Len(defaultMounts) ELSE {0}) :
          ChrootReturn("Run", Run(jail, fail, failAt))

NextChroot == ChrootPrepare \/ ChrootClose \/ ChrootRun

SpecChroot == InitChroot /\ [][NextChroot]_vars

-----------------------------------------------------------------------------
(* Properties of the Chroot                                                *)

\* the bind mounts a call made
Mounted(c) == { i \in 1..Len(c) : c[i].c = "mount" }

\* C18: Prepare on a chroot that is prepared (a Prepare returned without
\* error and Close was not called since) returns an error and makes no bind
\* mount.
PrepareTwiceFails ==
    [][ ( op = "chroot" /\ jail.prepared /\ cfg'.name = "Prepare" )
        => ( err' # Nil /\ Mounted(cmds') = {} /\ jail'.binds = jail.binds ) ]_vars

\* every call of the mounter the operation made succeeded
AllOk(c) == \A i \in 1..Len(c) : c[i].ok

\* C19: Close after one successful Prepare returns without error when no
\* unmount fails and leaves none of the bind mounts of Prepare mounted; the
\* chroot is then not prepared, and a Prepare whose mounts succeed returns
\* without error again.
CloseAfterPrepare ==
    [][ /\ ( /\ op = "chroot" /\ cfg'.name = "Close"
             /\ jail.prepared /\ jail.binds = defaultMounts /\ AllOk(cmds') )
           => ( /\ err' = Nil /\ jail'.binds = <<>> /\ ~jail'.prepared
                /\ Len(cmds') = Len(defaultMounts) )
        /\ ( /\ op = "chroot" /\ cfg'.name = "Prepare" /\ cfg.name = "Close"
             /\ ~jail.prepared /\ jail.binds = <<>> /\ AllOk(cmds') )
           => ( err' = Nil /\ jail'.binds = defaultMounts /\ jail'.prepared ) ]_vars

CloseAfterPrepareWitness ==
    /\ op = "chroot" /\ cfg.name = "Close" /\ err = Nil
    /\ Len(cmds) = Len(defaultMounts) /\ AllOk(cmds)
    /\ jail.binds = <<>> /\ ~jail.prepared /\ jail.root = "real"

\* the places in a command list where the process was switched, or was to
\* be switched, into the target
EnteredAt(c) == { i \in 1..Len(c) : c[i].c = "chroot" /\ c[i].ops = <<"path">> }

\* after place i the call tried to go back to the old root
RestoredAfter(c, i) ==
    \E k \in (i + 1)..Len(c) :
        c[k].c = "chdir" \/ (c[k].c = "chroot" /\ c[k].ops = <<".">>)

\* C20: on every path on which Run has switched, or tried to switch, the
\* process into the target, it tries to switch back to the real root before
\* it returns, whether the switch, the command or a later step failed.
RunRestoresRoot ==
    ( op = "chroot" /\ cfg.name = "Run" )
    => \A i \in EnteredAt(cmds) : RestoredAfter(cmds, i)

\* C21: a Run that made the bind mounts itself unmounts them before it
\* returns, and returns an error that says "failed closing chroot" when that
\* unmount fails.
RunUnmountsOwnMounts ==
    ( op = "chroot" /\ cfg.name = "Run" )
    => \A i \in Mounted(cmds) :
          /\ cmds[i].ok =>
                \E k \in (i + 1)..Len(cmds) :
                    cmds[k].c = "unmount" /\ cmds[k].ops = cmds[i].ops
          /\ \A k \in (i + 1)..Len(cmds) :
                (cmds[k].c = "unmount" /\ ~cmds[k].ok) => err = Errorf("failed closing chroot")

-----------------------------------------------------------------------------
(* MountImage, UnmountImage and DeployImage on one image, in any order     *)

MaxAcquire == 2

InitImage ==
    /\ op = "image" /\ pc = "idle" /\ err = Nil
    /\ cfg = [name |-> "", out |-> "", fails |-> {}]
    /\ InitNoRun /\ InitNoTools

\* no resource was acquired or released more often than the model follows
ImageBound == \A r \in Resources : acq[r] < MaxAcquire /\ rel[r] < MaxAcquire

ImageReturn(name, out, fails, r) ==
    /\ cfg' = [name |-> name, out |-> out, fails |-> fails]
    /\ SetEnv(r.env) /\ err' = r.err
    /\ UNCHANGED <<op, pc, stack, pushed, log, popped, hooks, deployed>>

ImageMount ==
    /\ op = "image" /\ ImageBound
    /\ \E out \in MountOutcomes, fails \in SUBSET {"activeLoop"} :
          ImageReturn("MountImage", out, fails, MountImage(Env, "activeImg", out, fails))

ImageUnmount ==
    /\ op = "image" /\ ImageBound
    /\ \E fails \in SUBSET {"activeImg", "activeLoop"} :
          ImageReturn("UnmountImage", "", fails, UnmountImage(Env, "activeImg", fails))

ImageDeploy ==
    /\ op = "image" /\ ImageBound
    /\ \E src \in {"dir", "file"}, squash \in BoolSet, leaveMounted \in BoolSet :
       \E out \in DeployOutcomes(src, squash, leaveMounted),
          fails \in SUBSET {"activeImg", "activeLoop", "squashTmp"} :
          ImageReturn("DeployImage", out, fails,
                      DeployImage(Env, "activeImg", src, squash, leaveMounted, out, fails))

NextImage == ImageMount \/ ImageUnmount \/ ImageDeploy

SpecImage == InitImage /\ [][NextImage]_vars

\* C22: when MountImage has attached a loop device and the mount fails, it
\* detaches the loop device before it returns the mount error: unless the
\* detach command itself fails, no loop device is attached that was not
\* attached before the call; after every failed MountImage the loop device
\* recorded for the image is what it was, unset if it was unset.
MountImageDetachesOnFailure ==
    [][ ( op = "image" /\ cfg'.name = "MountImage" /\ err' # Nil )
        => ( /\ imgLoop' = imgLoop /\ mnt' = mnt
             /\ cfg'.out = "mountFail" => rel'["activeLoop"] = rel["activeLoop"] + 1
             /\ "activeLoop" \notin cfg'.fails => loop' = loop ) ]_vars

MountImageDetachesOnFailureWitness ==
    /\ op = "image" /\ cfg.name = "MountImage" /\ cfg.out = "mountFail"
    /\ err = Errorf("mountImage")
    /\ acq["activeLoop"] = 1 /\ rel["activeLoop"] = 1
    /\ loop = {} /\ imgLoop = {} /\ ~relFailed

\* C23: whatever MountImage, UnmountImage and DeployImage calls were made on
\* the image, failed ones included, a loop device is recorded for it only
\* while it is mounted; an UnmountImage that has unmounted it leaves none
\* recorded.
LoopDeviceOnlyWhileMounted ==
    op = "image" => imgLoop \subseteq mnt

\* the unmount was done, detaching the loop device failed
LoopDeviceOnlyWhileMountedWitness ==
    /\ op = "image" /\ cfg.name = "UnmountImage" /\ err = Errorf("losetupDetach")
    /\ acq["activeImg"] = 1 /\ rel["activeImg"] = 1
    /\ "activeImg" \notin mnt /\ "activeImg" \notin imgLoop /\ "activeLoop" \in loop

\* C24: when DeployImage has mounted the image and then fails at a content
\* step (copying the source, creating the directory structure), it tries to
\* unmount the image before it returns the error.
DeployFailureUnmounts ==
    [][ ( /\ op = "image" /\ cfg'.name = "DeployImage" /\ err' # Nil
          /\ acq'["activeImg"] > acq["activeImg"] )
        => rel'["activeImg"] > rel["activeImg"] ]_vars

-----------------------------------------------------------------------------
(* The partition layout of an install: InstallSpec.Sanitize,               *)
(* ElementalPartitions.SetFirmwarePartitions and PartitionsByInstallOrder  *)
(* of pkg/types/v1/config.go, and the order in which                       *)
(* Elemental.PartitionAndFormatDevice creates the partitions.  A slot is   *)
(* <<>> (a nil pointer) or <<p>>; sizes are in MiB and only zero or        *)
(* non-zero matters.  cfg holds the InstallSpec, ret the partitions in the *)
(* order they are created.                                                 *)

\* number of extra partitions a layout declares
MaxExtra == 2

esp == "esp"
bios == "bios_grub"
boot == "boot"
EFI == "efi"
BIOS == "bios"

Partition(name, size, flags) == [name |-> name, size |-> size, flags |-> flags]

\* what the configuration can give a slot: nothing, size 0 or a size in MiB
SlotValues(name) == {<<>>} \cup {<<Partition(name, s, <<>>)>> : s \in 0..1}

ExtraLists ==
    UNION {[1..n -> {Partition("extra", s, <<>>) : s \in 0..1}] : n \in 0..MaxExtra}

\* firmware and part-table are free strings of the configuration
Firmwares == {EFI, BIOS, "other"}

SetFirmwarePartitions(ep, firmware, partTable) ==
    IF firmware = EFI /\ partTable = GPT
    THEN [err |-> Nil,
          ep |-> [ep EXCEPT !.EFI = <<Partition("efi", 1, <<esp>>)>>, !.BIOS = <<>>]]
    ELSE IF firmware = BIOS /\ partTable = GPT
    THEN [err |-> Nil,
          ep |-> [ep EXCEPT !.BIOS = <<Partition("bios", 1, <<bios>>)>>, !.EFI = <<>>]]
    ELSE IF ep.State = <<>>
    THEN [err |-> Errorf("nil state partition"), ep |-> ep]
    ELSE [err |-> Nil,
          ep |-> [ep EXCEPT !.State = <<[ep.State[1] EXCEPT !.flags = <<boot>>]>>,
                            !.EFI = <<>>, !.BIOS = <<>>]]

ExtraZeros(i) == {k \in DOMAIN i.extra : i.extra[k].size = 0}

Sanitize(i) ==
    LET extraPartsSizeCheck == Cardinality(ExtraZeros(i))
        r == SetFirmwarePartitions(i.parts, i.firmware, i.partTable)
    IN  IF ~i.source
        THEN [err |-> Errorf("undefined system source to install"), i |-> i]
        ELSE IF i.parts.State = <<>>
        THEN [err |-> Errorf("undefined state partition"), i |-> i]
        ELSE IF extraPartsSizeCheck > 1
        THEN [err |-> Errorf("more than one extra partition has its size set to 0"),
              i |-> i]
        ELSE IF extraPartsSizeCheck = 1 /\ i.parts.Persistent = <<>>
        THEN [err |-> Errorf("nil pointer dereference"), i |-> i]
        ELSE IF extraPartsSizeCheck = 1 /\ i.parts.Persistent[1].size = 0
        THEN [err |-> Errorf("both persistent partition and extra partitions have size set to 0"),
              i |-> i]
        ELSE [err |-> r.err, i |-> [i EXCEPT !.parts = r.ep]]

IsZero(p) == p.size = 0
NonZero(p) == p.size # 0

PartitionsByInstallOrder(ep, extraPartitions) ==
    LET persistentLast == ep.Persistent # <<>> /\ ep.Persistent[1].size = 0
        zeros == SelectSeq(extraPartitions, IsZero)
        lastPartition == IF persistentLast THEN ep.Persistent
                         ELSE IF zeros # <<>> THEN <<zeros[1]>>
                         ELSE <<>>
    IN  ep.BIOS \o ep.EFI \o ep.OEM \o ep.Recovery \o ep.State
            \o (IF persistentLast THEN <<>> ELSE ep.Persistent)
            \o SelectSeq(extraPartitions, NonZero)
            \o lastPartition

InitLayout ==
    /\ op = "layout" /\ pc = "idle" /\ err = Nil
    /\ \E source \in BOOLEAN, firmware \in Firmwares, partTable \in {GPT, MSDOS},
          oem \in SlotValues("oem"), recovery \in SlotValues("recovery"),
          state \in SlotValues("state"), persistent \in SlotValues("persistent"),
          extra \in ExtraLists :
          cfg = [source |-> source, firmware |-> firmware, partTable |-> partTable,
                 parts |-> [BIOS |-> <<>>, EFI |-> <<>>, OEM |-> oem,
                            Recovery |-> recovery, State |-> state,
                            Persistent |-> persistent],
                 extra |-> extra]
    /\ device = NewDisk /\ disk = NewDisk /\ cmds = <<>> /\ ret = <<>>
    /\ find = NoFind /\ jail = NewChroot
    /\ InitNoRun

\* ReadInstallSpec: the spec is sanitized once it is read
LayoutSanitize ==
    /\ op = "layout" /\ pc = "idle"
    /\ LET r == Sanitize(cfg)
       IN  cfg' = r.i /\ err' = r.err
    /\ pc' = "sanitized"
    /\ UNCHANGED <<op, runvars, toolvars>>

\* PartitionAndFormatDevice, up to the list handed to createPartitions
LayoutPartition ==
    /\ op = "layout" /\ pc = "sanitized" /\ err = Nil
    /\ LET r == SetFirmwarePartitions(cfg.parts, cfg.firmware, cfg.partTable)
       IN  /\ cfg' = [cfg EXCEPT !.parts = r.ep]
           /\ err' = r.err
           /\ ret' = IF r.err = Nil
                     THEN PartitionsByInstallOrder(r.ep, cfg.extra)
                     ELSE ret
    /\ pc' = "partitioned"
    /\ UNCHANGED <<op, runvars, device, disk, cmds, find, jail>>

NextLayout == LayoutSanitize \/ LayoutPartition

SpecLayout == InitLayout /\ [][NextLayout]_vars

\* the layout was accepted and its partitions are created in the order of ret
Accepted == op = "layout" /\ pc = "partitioned" /\ err = Nil

ZeroSized(list) == {k \in DOMAIN list : list[k].size = 0}

\* C25: a layout accepted for creation by install has at most one partition
\* of size 0 among all the partitions it creates, fixed slots and extra
\* partitions counted together.
AtMostOneZeroSize ==
    Accepted => Cardinality(ZeroSized(ret)) <= 1

\* C26: in the order in which install creates the partitions, a partition of
\* size 0 is the last one, whichever slot it comes from.
ZeroSizeIsLast ==
    Accepted => \A k \in ZeroSized(ret) : k = Len(ret)

FirmwareSlotsSet ==
    op = "layout" /\ pc \in {"sanitized", "partitioned"} /\ err = Nil

\* C27: once the firmware slots are set, a GPT layout has exactly one of the
\* BIOS and EFI slots populated, and an msdos layout has neither and its
\* State partition carries the boot flag.
FirmwareSlots ==
    FirmwareSlotsSet =>
        /\ cfg.partTable = GPT =>
              (cfg.parts.BIOS = <<>>) # (cfg.parts.EFI = <<>>)
        /\ cfg.partTable = MSDOS =>
              /\ cfg.parts.BIOS = <<>> /\ cfg.parts.EFI = <<>>
              /\ cfg.parts.State[1].flags = <<boot>>

-----------------------------------------------------------------------------
(* Hooks of the orchestrated operations                                    *)

\* the step ran a hook whose stage failed
HookFailed(h) ==
    /\ op \in RunOps
    /\ Len(cmds') > Len(cmds)
    /\ cmds'[Len(cmds) + 1] = [c |-> "RunStage", ops |-> h, ok |-> FALSE]

AllHooks ==
    {"before-install", "after-install-chroot", "after-install",
     "before-upgrade", "after-upgrade-chroot", "after-upgrade",
     "before-reset", "after-reset-chroot", "after-reset"}

-----------------------------------------------------------------------------
(* The InstallState file                                                   *)

AutogeneratedWarning == "# Autogenerated file by elemental client, do not edit"

\* yaml.Marshal of an InstallState: its lines, or an error
Marshal(i) == <<i>>

\* Config.WriteInstallState: the warning and the marshalled state go to the
\* state path, then to the recovery path; failAt is the WriteFile call that
\* fails (0 for none).  No revision of InstallAction.Run or
\* UpgradeAction.Run in the source calls it.
WriteInstallState(e, i, statePath, recoveryPath, failAt) ==
    LET data == <<AutogeneratedWarning>> \o Marshal(i) IN
    IF failAt = 1 THEN [env |-> e, err |-> Errorf("writeFile")]
    ELSE IF failAt = 2
    THEN [env |-> [e EXCEPT !.files[statePath] = data], err |-> Errorf("writeFile")]
    ELSE [env |-> [e EXCEPT !.files[statePath] = data, !.files[recoveryPath] = data],
          err |-> Nil]

\* C29: every successful install or upgrade run has written the InstallState
\* file at the State and at the Recovery mount point, with the same content,
\* which begins with the autogenerated-file warning.
InstallStateWritten ==
    ( op \in {"install", "upgrade", "upgradeOld"} /\ pc = "done" /\ err = Nil )
    => /\ files["state/state.yaml"] # <<>>
       /\ files["state/state.yaml"] = files["recovery/state.yaml"]
       /\ files["state/state.yaml"][1] = AutogeneratedWarning

-----------------------------------------------------------------------------
(* The passive image of a system upgrade                                   *)

SystemUpgrade == op \in {"upgrade", "upgradeOld"} /\ ~cfg.recoveryUpgrade

\* the step renames the transition file to the active image
RenamesTransition ==
    /\ files["transition"] # "none"
    /\ files'["transition"] = "none"
    /\ files'["active"] = files["transition"]

\* C30: in a system upgrade the active image has been moved to the passive
\* slot when the transition file is renamed to the active image, and a
\* successful upgrade ends with the pre-upgrade active image as the passive
\* image.
BackupBeforeRename ==
    [][ SystemUpgrade =>
          /\ RenamesTransition =>
                (files["passive"] = "oldActive" /\ files["active"] = "none")
          /\ (pc' = "done" /\ err' = Nil) => files'["passive"] = "oldActive" ]_vars

-----------------------------------------------------------------------------
(* Reboot and power-off                                                    *)

\* the step asks for a reboot or a power-off
PowerRequested ==
    /\ op \in RunOps
    /\ Len(cmds') > Len(cmds)
    /\ cmds'[Len(cmds')].c \in {"reboot", "poweroff"}

-----------------------------------------------------------------------------
(* Mounting the partitions of an install: the order                        *)
(* OrderedByMountPointPartitions gives, Elemental.MountPartitions and the  *)
(* UnmountPartitions callback InstallAction.Run pushes.  A mount point is  *)
(* the sequence of its characters, <<>> when unset; cfg.points gives the   *)
(* mount point of each partition and cmds the partition calls in order.    *)

\* byte values of the characters the mount points are made of
Code(ch) ==
    CASE ch = "-" -> 45
      [] ch = "/" -> 47
      [] ch = "a" -> 97
      [] ch = "b" -> 98

\* s < t as Go compares strings
RECURSIVE Less(_, _)
Less(s, t) ==
    IF s = <<>> THEN t # <<>>
    ELSE IF t = <<>> THEN FALSE
    ELSE IF s[1] = t[1] THEN Less(Tail(s), Tail(t))
    ELSE Code(s[1]) < Code(t[1])

\* sort.Strings
RECURSIVE SortStrings(_)
SortStrings(S) ==
    IF S = {} THEN <<>>
    ELSE LET m == CHOOSE x \in S : \A y \in S \ {x} : Less(x, y)
         IN  <<m>> \o SortStrings(S \ {m})

\* the variant that ignores descending
OrderedAscending(pm, descending) ==
    LET mountPoints == SortStrings({pm[k] : k \in DOMAIN pm} \ {<<>>})
    IN  [i \in 1..Len(mountPoints) |-> CHOOSE k \in DOMAIN pm : pm[k] = mountPoints[i]]

\* the partitions with a mount point, sorted by mount point
OrderedByMountPointPartitions(pm, descending) ==
    LET sorted == SortStrings({pm[k] : k \in DOMAIN pm} \ {<<>>})
        mountPoints == IF descending THEN Reverse(sorted) ELSE sorted
    IN  [i \in 1..Len(mountPoints) |-> CHOOSE k \in DOMAIN pm : pm[k] = mountPoints[i]]

\* /a, /a/b, /a/b/a, /a-b and /b
MountPoints ==
    { <<"/", "a">>, <<"/", "a", "/", "b">>, <<"/", "a", "/", "b", "/", "a">>,
      <<"/", "a", "-", "b">>, <<"/", "b">> }

\* the mount points of a layout are distinct
PartitionMaps ==
    { pm \in [Partitions -> MountPoints \cup {<<>>}] :
        \A k1, k2 \in Partitions : (k1 # k2 /\ pm[k1] # <<>>) => pm[k1] # pm[k2] }

MountsEnv == Env @@ [calls |-> cmds]

SetMountsEnv(e) ==
    /\ mnt' = e.mnt /\ acq' = e.acq /\ rel' = e.rel
    /\ relFailed' = e.relFailed /\ partlog' = e.partlog /\ cmds' = e.calls
    /\ UNCHANGED <<loop, imgLoop, tmp, files, device, disk, ret, find, jail>>

InitMounts ==
    /\ op = "mounts" /\ pc = "idle" /\ err = Nil
    /\ \E pm \in PartitionMaps : cfg = [points |-> pm, failAt |-> 0, fails |-> {}]
    /\ InitNoRun /\ InitNoTools /\ cmds = <<>>

\* MountPartitions of the partitions in ascending order; on success the
\* unmount in descending order is pushed
MountsMount ==
    /\ op = "mounts" /\ pc = "idle"
    /\ LET parts == OrderedByMountPointPartitions(cfg.points, FALSE) IN
       \E failAt \in 0..Len(parts), fails \in SUBSET SeqToSet(parts) :
          LET r == MountPartitions(MountsEnv, parts, failAt, fails) IN
          /\ SetMountsEnv(r.env)
          /\ err' = r.err
          /\ cfg' = [cfg EXCEPT !.failAt = failAt, !.fails = fails]
          /\ IF r.err # Nil THEN pc' = "done" /\ NoPush
                            ELSE pc' = "mounted" /\ PushJobs(<<"umountParts">>)
    /\ UNCHANGED <<op, log, popped, hooks, deployed>>

\* the pushed callback, run when the stack is drained
MountsCleanup ==
    /\ op = "mounts" /\ pc = "mounted"
    /\ LET parts == OrderedByMountPointPartitions(cfg.points, TRUE) IN
       \E fails \in SUBSET SeqToSet(parts) :
          LET r == UnmountPartitions(MountsEnv, parts, fails) IN
          /\ SetMountsEnv(r.env)
          /\ err' = r.err
          /\ cfg' = [cfg EXCEPT !.fails = fails]
    /\ pc' = "done"
    /\ stack' = <<>> /\ log' = Append(log, "umountParts")
    /\ UNCHANGED <<op, pushed, popped, hooks, deployed>>

NextMounts == MountsMount \/ MountsCleanup

SpecMounts == InitMounts /\ [][NextMounts]_vars

\* p is an ancestor directory of q
Ancestor(p, q) ==
    /\ p # <<>> /\ Len(p) < Len(q)
    /\ SubSeq(q, 1, Len(p)) = p
    /\ q[Len(p) + 1] = "/"

\* the positions of the calls what(part) among the calls made so far
CallsOf(what, part) == {i \in DOMAIN cmds : cmds[i] = <<what, part>>}

\* C32: a partition whose mount point is an ancestor directory of another
\* partition's mount point is mounted before it, and the cleanup callback
\* unmounts the nested one before its parent.
MountsNestedOrder ==
    op = "mounts" =>
        \A p, q \in Partitions :
            Ancestor(cfg.points[p], cfg.points[q]) =>
                /\ \A i \in CallsOf("mount", p), j \in CallsOf("mount", q) : i < j
                /\ \A j \in CallsOf("mount", q) : CallsOf("mount", p) # {}
                /\ (log # <<>>) =>
                       \A i \in CallsOf("unmount", p), j \in CallsOf("unmount", q) : j < i

\* oem on /a, state on /a/b: mounted in that order, unmounted in the other
MountsNestedOrderWitness ==
    /\ op = "mounts" /\ pc = "done" /\ err = Nil
    /\ cfg.points["oem"] = <<"/", "a">>
    /\ cfg.points["state"] = <<"/", "a", "/", "b">>
    /\ cmds = << <<"mount", "oem">>, <<"mount", "state">>,
                 <<"unmount", "state">>, <<"unmount", "oem">> >>

\* MountPartitions returned an error
MountsFailed == op = "mounts" /\ pc = "done" /\ cfg.failAt > 0

\* the partitions the failed call had mounted: those before the failing one
MountedInCall ==
    LET parts == OrderedByMountPointPartitions(cfg.points, FALSE)
    IN  {parts[i] : i \in 1..(cfg.failAt - 1)}

\* C36: when MountPartitions fails to mount a partition, every partition it
\* had mounted in that call has been unmounted when it returns (the unmount
\* was issued after the mount, and the partition is no longer mounted unless
\* that unmount itself failed), and the error is the mount error.
MountFailureUnmounts ==
    MountsFailed =>
        /\ err = Errorf("mount")
        /\ \A p \in MountedInCall :
              /\ \E i \in CallsOf("mount", p), j \in CallsOf("unmount", p) : i < j
              /\ p \notin cfg.fails => p \notin mnt

\* three partitions, the third mount fails: the first two are unmounted
MountFailureUnmountsWitness ==
    /\ MountsFailed /\ cfg.failAt = 3 /\ cfg.fails = {}
    /\ Cardinality(MountedInCall) = 2
    /\ mnt = {} /\ err = Errorf("mount")
    /\ Len(cmds) = 5

-----------------------------------------------------------------------------
(* More properties of the Disk                                             *)

\* the positions of the parted commands that write, among the commands c
PartedAt(c) == {i \in 1..Len(c) : c[i].c = "parted"}

\* the partitions of a table other than number n
Others(d, n) == {d.parts[i] : i \in {k \in 1..Len(d.parts) : d.parts[k].Number # n}}

\* C33: ExpandLastPartition deletes and recreates the last partition of the
\* table in one parted call, the rm before the mkpart; the mkpart starts at
\* the start sector of the partition it replaces, and on the device the new
\* partition has its number and start and the other partitions are as before.
ExpandRecreatesInPlace ==
    [][ ( op = "disk" /\ pc = "idle" /\ cfg'.name = "ExpandLastPartition" /\ Wrote(cmds') )
        => LET old == Last(TableSeen.parts) IN
           /\ Cardinality(PartedAt(cmds')) = 1
           /\ \A i \in PartedAt(cmds') :
                 /\ Len(cmds'[i].ops) = 2
                 /\ cmds'[i].ops[1] = DeletePartition(old.Number)
                 /\ cmds'[i].ops[2].o = "mkpart"
                 /\ cmds'[i].ops[2].num = old.Number
                 /\ cmds'[i].ops[2].start = old.StartS
                 /\ cmds'[i].ok =>
                       /\ \E k \in 1..Len(device'.parts) :
                             /\ device'.parts[k].Number = old.Number
                             /\ device'.parts[k].StartS = old.StartS
                             /\ device'.parts[k].SizeS >= old.SizeS
                       /\ Others(device', old.Number) = Others(device, old.Number) ]_vars

-----------------------------------------------------------------------------
(* The order of an upgrade's cleanup                                       *)

\* callback a is run before callback b
Precedes(l, a, b) == \E i, j \in 1..Len(l) : i < j /\ l[i] = a /\ l[j] = b

\* the step that drains the cleanup stack of an upgrade: at the end of Run,
\* or deferred when Run returns early
UpgradeDrain == op \in UpgradeOps /\ pc \in {"cleanup", "defer"} /\ log' # log

\* C34: when the cleanup stack of an upgrade is drained with the transition
\* image mounted, the removal of the transition image file is preceded by the
\* unmount of the image, and the removal precedes the unmount of the partition
\* that holds the file.
TransitionTeardownOrder ==
    [][ UpgradeDrain =>
          /\ ( "rmTransition" \in SeqToSet(log') /\ "transitionImg" \in mnt )
                => Precedes(log', "umountTransition", "rmTransition")
          /\ ( "rmTransition" \in SeqToSet(log') /\ "umountPart" \in SeqToSet(log') )
                => Precedes(log', "rmTransition", "umountPart") ]_vars

-----------------------------------------------------------------------------
(* FindPartitionDevice on a disk with more than nine partitions            *)

PartCount == 11

\* a GPT device with PartCount partitions of 8 sectors, numbered in disk order
ManyParts ==
    [sectorS |-> 512, lastS |-> DiskMiB * (MiB \div 512), label |-> GPT,
     parts |-> [i \in 1..PartCount |->
                   [Number |-> i, StartS |-> 2048 + 8 * (i - 1), SizeS |-> 8]]]

InitFind ==
    /\ op = "disk" /\ pc = "idle" /\ err = Nil
    /\ cfg = NoCall
    /\ device = ManyParts /\ disk = NewDisk
    /\ cmds = <<>> /\ ret = 0 /\ find = NoFind /\ jail = NewChroot
    /\ InitNoRun

NextFind == DiskFindPartitionDevice \/ FindTry

SpecFind == InitFind /\ [][NextFind]_vars

\* C35: when FindPartitionDevice(n) returns a device node it is the node of
\* partition n, never that of another partition whose number ends with the
\* digits of n.
FindReturnsOwnNode ==
    ( op = "disk" /\ pc = "done" /\ cfg.name = "FindPartitionDevice" /\ err = Nil )
        => ret = cfg.num

-----------------------------------------------------------------------------
(* The error of a failed xfs grow                                          *)

\* C37: when xfs_growfs fails, ExpandLastPartition returns the error of
\* xfs_growfs, also when the unmount of the temporary mount point that
\* follows fails as well.
GrowFailureIsReturned ==
    ( /\ op = "disk" /\ pc = "done" /\ cfg.name = "ExpandLastPartition"
      /\ FailedAt(cmds, "xfs_growfs") # {} )
        => err = Errorf("xfs_growfs")

-----------------------------------------------------------------------------
(* Reload is all or nothing                                                *)

\* a print of the call succeeded
PrintOk(c) == \E i \in 1..Len(c) : c[i].c = "print" /\ c[i].ok

\* C38: a call on a loaded or fresh Disk leaves its sector size, last sector,
\* label and partition list either as they were or as one print of the device
\* gave them; when the Reload of the call fails they are as they were before
\* that Reload.
ReloadAllOrNothing ==
    [][ ( op = "disk" /\ pc = "idle" /\ cfg'.name \notin {"", "NewDisk"} )
        => /\ disk' \in {disk, device, device'}
           /\ PrintFailed(cmds') => disk' = IF PrintOk(cmds') THEN device ELSE disk ]_vars

\* the table was written and the Reload after it failed: the Disk holds the
\* whole table it had read before
ReloadAllOrNothingWitness ==
    /\ op = "disk" /\ pc = "done" /\ cfg.name = "AddPartition" /\ Wrote(cmds)
    /\ PrintFailed(cmds) /\ err # Nil
    /\ disk # device /\ disk.sectorS # 0
    /\ Len(device.parts) = Len(disk.parts) + 1

-----------------------------------------------------------------------------
(* The passive image of an install                                         *)

\* C39: an install writes the passive image file only when the active image
\* file holds the complete new system, the after-install-chroot hook has run
\* and the active image is not mounted.
PassiveAfterActive ==
    [][ ( op = "install" /\ files'["passive"] # files["passive"] )
        => /\ files["active"] = "new"
           /\ "activeImg" \notin mnt
           /\ "after-install-chroot" \in SeqToSet(hooks) ]_vars

PassiveAfterActiveWitness ==
    /\ op = "install" /\ pc = "after" /\ err = Nil
    /\ files["passive"] = "new" /\ files["active"] = "new"
    /\ "activeImg" \notin mnt
    /\ "after-install-chroot" \in SeqToSet(hooks)

-----------------------------------------------------------------------------
(* Free space and the size of the disk                                     *)

\* C40: for every table a Disk has loaded the computed free space is at most
\* the last sector, and an AddPartition that got as far as writing asked for
\* no more sectors than the disk has.
FreeSpaceWithinDisk ==
    ( op = "disk" /\ disk.sectorS # 0 )
        => /\ computeFreeSpace(disk) <= disk.lastS
           /\ ( pc = "done" /\ cfg.name = "AddPartition" /\ Wrote(cmds) )
                 => MiBToSectors(cfg.size, disk.sectorS) <= disk.lastS

=============================================================================
